---- MODULE Spec2Model ----
(***************************************************************************)
(* Model of the 2026 market-intelligence scoring engine:                   *)
(*   Utils             (src/js/utils.js)                                   *)
(*   FinancialAnalyzer (src/unnamed/part_001)                              *)
(*   MLEngine          (src/unnamed/part_000)                              *)
(*   DataLoader, ChartManager, App (src/js), as far as they read or change *)
(*   the population array                                                  *)
(*                                                                         *)
(* Numbers.  The code computes with JavaScript numbers.  The model computes*)
(* with exact rationals [n |-> numerator, d |-> denominator], kept in       *)
(* lowest terms with d > 0.  A record with d = 0 stands for a non-finite    *)
(* number (NaN, +Infinity, -Infinity), which is what a division by zero     *)
(* produces in the code.  The fiscal values the specifications draw are     *)
(* integers for which the code's threshold comparisons give the same        *)
(* answer in double arithmetic as in exact arithmetic.                      *)
(***************************************************************************)
EXTENDS Integers, Sequences, FiniteSets

\* companies: the population array DataLoader.companies, which App hands to
\*            FinancialAnalyzer and MLEngine (one array, three references)
\* ret:       the last call and what it returned
\* app:       the fields of App and the content of the stocks grid

VARIABLES companies, ret, app

vars == <<companies, ret, app>>

(***************************************************************************)
(* Bounds of the model.                                                    *)
(***************************************************************************)
\* fiscal periods per company in the analyzer specification
MaxYears == 2
\* companies per population in the ML-engine specification
MaxCompanies == 3
\* companies per population in the normalize specification
MaxNormPop == 2

(***************************************************************************)
(* Exact rational arithmetic standing for JavaScript numbers.              *)
(***************************************************************************)
Abs(x) == IF x < 0 THEN -x ELSE x

RECURSIVE GCD(_, _)
GCD(a, b) == IF b = 0 THEN a ELSE GCD(b, a % b)

Sign(x) == IF x > 0 THEN 1 ELSE IF x < 0 THEN -1 ELSE 0

\* the number n/d in lowest terms with a positive denominator; for d = 0 the
\* non-finite number of that sign (0/0 is NaN)
Reduce(n, d, g) ==
    IF d < 0 THEN [n |-> (-n) \div g, d |-> (-d) \div g]
    ELSE [n |-> n \div g, d |-> d \div g]

Rat(n, d) ==
    IF d = 0 THEN [n |-> Sign(n), d |-> 0]
    ELSE Reduce(n, d, GCD(Abs(n), Abs(d)))

Num(k) == [n |-> k, d |-> 1]

PosInf == [n |-> 1, d |-> 0]
NegInf == [n |-> -1, d |-> 0]

RAdd(x, y) == Rat(x.n * y.d + y.n * x.d, x.d * y.d)
RSub(x, y) == Rat(x.n * y.d - y.n * x.d, x.d * y.d)
RMul(x, y) == Rat(x.n * y.n, x.d * y.d)
\* x / y in JavaScript: a zero divisor gives a non-finite number
IsNaN(x) == x.d = 0 /\ x.n = 0

RDiv(x, y) ==
    IF IsNaN(x) \/ IsNaN(y) THEN [n |-> 0, d |-> 0]
    ELSE IF y.n = 0 THEN [n |-> Sign(x.n), d |-> 0]
    ELSE Rat(x.n * y.d, x.d * y.n)

\* the comparisons of JavaScript: every comparison with NaN is false
RLt(x, y) ==
    /\ ~IsNaN(x)
    /\ ~IsNaN(y)
    /\ IF x.d # 0 /\ y.d # 0 THEN x.n * y.d < y.n * x.d
       ELSE IF x.d = 0 THEN x.n < 0 /\ y # x
       ELSE y.n > 0
RLe(x, y) == ~IsNaN(x) /\ ~IsNaN(y) /\ ~RLt(y, x)
RGt(x, y) == RLt(y, x)
RGe(x, y) == RLe(y, x)

Range(s) == {s[i] : i \in DOMAIN s}

\* a variant that takes the first element of the list for its minimum
MathMinFirst(list) == IF list = <<>> THEN PosInf ELSE list[1]

Least(S) == CHOOSE x \in S : \A y \in S : RLe(x, y)
Greatest(S) == CHOOSE x \in S : \A y \in S : RLe(y, x)

\* Math.min(...list) and Math.max(...list); of an empty list: +/-Infinity, of
\* a list that holds NaN: NaN
MathMin(list) ==
    IF list = <<>> THEN PosInf
    ELSE IF \E x \in Range(list) : IsNaN(x) THEN [n |-> 0, d |-> 0]
    ELSE Least(Range(list))
MathMax(list) ==
    IF list = <<>> THEN NegInf
    ELSE IF \E x \in Range(list) : IsNaN(x) THEN [n |-> 0, d |-> 0]
    ELSE Greatest(Range(list))

(***************************************************************************)
(* Utils (src/js/utils.js)                                                 *)
(***************************************************************************)
\* clamp: Math.min(Math.max(value, min), max); Math.max and Math.min give NaN
\* when an argument is NaN
clamp(value, min, max) ==
    LET lo == IF IsNaN(value) \/ IsNaN(min) THEN Rat(0, 0)
              ELSE IF RGt(value, min) THEN value ELSE min
    IN  IF IsNaN(lo) \/ IsNaN(max) THEN Rat(0, 0)
        ELSE IF RLt(lo, max) THEN lo ELSE max

\* growthRate: 0 when oldVal is falsy, else ((newVal - oldVal) / oldVal) * 100
growthRate(oldVal, newVal) ==
    IF oldVal = 0 THEN Num(0)
    ELSE RMul(RDiv(Num(newVal - oldVal), Num(oldVal)), Num(100))

\* a variant that divides without the zero guard
safeDivideUnguarded(a, b) == RDiv(Num(a), Num(b))

\* safeDivide: 0 when b is falsy, else a / b
safeDivide(a, b) ==
    IF b = 0 THEN Num(0) ELSE RDiv(Num(a), Num(b))

\* isValidNumber: a number that is neither NaN nor infinite
isValidNumber(val) == val.d # 0

(***************************************************************************)
(* FinancialAnalyzer (src/unnamed/part_001)                                *)
(***************************************************************************)
latestYear(company) == company.years[Len(company.years)]

calculateMetrics(company) ==
    LET y == latestYear(company)
    IN  [ profitMargin  |-> RMul(safeDivide(y.netProfit, y.revenue), Num(100)),
          roe           |-> RMul(safeDivide(y.netProfit, y.totalEquity), Num(100)),
          debtToEquity  |-> safeDivide(y.totalDebt, y.totalEquity),
          priceToEquity |-> safeDivide(y.marketCap, y.totalEquity),
          priceToSales  |-> safeDivide(y.marketCap, y.revenue),
          revenue       |-> y.revenue,
          netProfit     |-> y.netProfit,
          totalDebt     |-> y.totalDebt,
          totalEquity   |-> y.totalEquity,
          marketCap     |-> y.marketCap ]

\* a variant whose thresholds are not strict
marginPointsNonStrict(metrics) ==
    IF RGe(metrics.profitMargin, Num(20)) THEN 20
    ELSE IF RGe(metrics.profitMargin, Num(10)) THEN 15
    ELSE IF RGe(metrics.profitMargin, Num(5)) THEN 10
    ELSE IF RGe(metrics.profitMargin, Num(0)) THEN 5
    ELSE 0

\* the profitMargin branch of calculateHealthScore
marginPoints(metrics) ==
    IF RGt(metrics.profitMargin, Num(20)) THEN 20
    ELSE IF RGt(metrics.profitMargin, Num(10)) THEN 15
    ELSE IF RGt(metrics.profitMargin, Num(5)) THEN 10
    ELSE IF RGt(metrics.profitMargin, Num(0)) THEN 5
    ELSE 0

\* a variant that buckets roe with the profitMargin thresholds
roePointsAsMargin(metrics) ==
    IF RGt(metrics.roe, Num(20)) THEN 20
    ELSE IF RGt(metrics.roe, Num(10)) THEN 15
    ELSE IF RGt(metrics.roe, Num(5)) THEN 10
    ELSE IF RGt(metrics.roe, Num(0)) THEN 5
    ELSE 0

\* the roe branch of calculateHealthScore
roePoints(metrics) ==
    IF RGt(metrics.roe, Num(20)) THEN 20
    ELSE IF RGt(metrics.roe, Num(15)) THEN 15
    ELSE IF RGt(metrics.roe, Num(10)) THEN 10
    ELSE IF RGt(metrics.roe, Num(5)) THEN 5
    ELSE 0

\* a variant that awards 35 points to the lowest leverage bucket
debtPointsHigh(metrics) ==
    IF RLt(metrics.debtToEquity, Rat(1, 2)) THEN 35
    ELSE IF RLt(metrics.debtToEquity, Num(1)) THEN 20
    ELSE IF RLt(metrics.debtToEquity, Num(2)) THEN 10
    ELSE IF RLt(metrics.debtToEquity, Num(3)) THEN 5
    ELSE 0

\* the debtToEquity branch of calculateHealthScore
debtPoints(metrics) ==
    IF RLt(metrics.debtToEquity, Rat(1, 2)) THEN 30
    ELSE IF RLt(metrics.debtToEquity, Num(1)) THEN 20
    ELSE IF RLt(metrics.debtToEquity, Num(2)) THEN 10
    ELSE IF RLt(metrics.debtToEquity, Num(3)) THEN 5
    ELSE 0

\* a variant whose thresholds are not strict
growthBucketNonStrict(g) ==
    IF RGe(g, Num(20)) THEN 15
    ELSE IF RGe(g, Num(10)) THEN 10
    ELSE IF RGe(g, Num(5)) THEN 5
    ELSE 0

\* one growth bucket of calculateHealthScore (revenue and profit alike)
growthBucket(g) ==
    IF RGt(g, Num(20)) THEN 15
    ELSE IF RGt(g, Num(10)) THEN 10
    ELSE IF RGt(g, Num(5)) THEN 5
    ELSE 0

\* the growth block of calculateHealthScore: the two buckets it adds
growthPoints(company) ==
    LET n == Len(company.years)
    IN  IF n >= 2
        THEN [ revenue |-> growthBucket(growthRate(company.years[n - 1].revenue,
                                                   company.years[n].revenue)),
               profit  |-> growthBucket(growthRate(company.years[n - 1].netProfit,
                                                   company.years[n].netProfit)) ]
        ELSE [ revenue |-> 0, profit |-> 0 ]

\* calculateHealthScore with its local variables at the return statement
healthState(company) ==
    LET metrics == calculateMetrics(company)
        g       == growthPoints(company)
        score   == marginPoints(metrics) + roePoints(metrics) + debtPoints(metrics)
                     + g.revenue + g.profit
    IN  [ margin   |-> marginPoints(metrics),
          roe      |-> roePoints(metrics),
          leverage |-> debtPoints(metrics),
          growth   |-> g.revenue + g.profit,
          revenueGrowth |-> g.revenue,
          profitGrowth  |-> g.profit,
          score    |-> score,
          value    |-> clamp(Num(score), Num(0), Num(100)) ]

calculateHealthScore(company) == healthState(company).value

\* a variant whose middle leverage bucket adds less than the lowest one
debtRiskNonMonotone(metrics) ==
    IF RGt(metrics.debtToEquity, Num(3)) THEN 45
    ELSE IF RGt(metrics.debtToEquity, Num(2)) THEN 10
    ELSE IF RGt(metrics.debtToEquity, Num(1)) THEN 15
    ELSE 0

\* the debt block of calculateRisk
debtRisk(metrics) ==
    IF RGt(metrics.debtToEquity, Num(3)) THEN 45
    ELSE IF RGt(metrics.debtToEquity, Num(2)) THEN 30
    ELSE IF RGt(metrics.debtToEquity, Num(1)) THEN 15
    ELSE 0

\* the profitability block of calculateRisk
marginRisk(metrics) ==
    IF RLt(metrics.profitMargin, Num(0)) THEN 40
    ELSE IF RLt(metrics.profitMargin, Num(5)) THEN 25
    ELSE IF RLt(metrics.profitMargin, Num(10)) THEN 10
    ELSE 0

\* the valuation block of calculateRisk
valuationRisk(metrics) ==
    IF RGt(metrics.priceToEquity, Num(12)) THEN 20
    ELSE IF RGt(metrics.priceToEquity, Num(7)) THEN 10
    ELSE 0

\* a variant whose 'high' band starts above 65
riskBandStrict(riskScore) ==
    IF riskScore > 65 THEN "high"
    ELSE IF riskScore >= 35 THEN "medium"
    ELSE "low"

\* the final calibration of calculateRisk
riskBand(riskScore) ==
    IF riskScore >= 65 THEN "high"
    ELSE IF riskScore >= 35 THEN "medium"
    ELSE "low"

\* calculateRisk with its local riskScore at the return statement
riskState(company) ==
    LET metrics   == calculateMetrics(company)
        riskScore == debtRisk(metrics) + marginRisk(metrics) + valuationRisk(metrics)
    IN  [ riskScore |-> riskScore, value |-> riskBand(riskScore) ]

calculateRisk(company) == riskState(company).value

\* calculatePotentialReturn
calculatePotentialReturn(company) ==
    LET metrics == calculateMetrics(company)
        n       == Len(company.years)
        growth  == growthRate(company.years[n - 1].revenue, company.years[n].revenue)
        potential ==
            healthState(company).score
            + (IF RLt(metrics.priceToEquity, Num(2)) THEN 20 ELSE 0)
            + (IF RGt(metrics.profitMargin, Num(15)) THEN 15 ELSE 0)
            + (IF RLt(metrics.debtToEquity, Rat(1, 2)) THEN 10 ELSE 0)
            + (IF n >= 2
               THEN IF RGt(growth, Num(20)) THEN 15
                    ELSE IF RGt(growth, Num(10)) THEN 10 ELSE 0
               ELSE 0)
    IN  clamp(Num(potential), Num(0), Num(100))

\* analyzeAll: one entry per company, the company's fields and its analysis
analyzeAll(population) ==
    [ i \in DOMAIN population |->
        [ company  |-> population[i].company,
          ticker   |-> population[i].ticker,
          sector   |-> population[i].sector,
          years    |-> population[i].years,
          metrics  |-> calculateMetrics(population[i]),
          healthScore |-> calculateHealthScore(population[i]),
          risk     |-> calculateRisk(population[i]),
          potentialReturn |-> calculatePotentialReturn(population[i]) ] ]

(***************************************************************************)
(* MLEngine (src/unnamed/part_000)                                         *)
(***************************************************************************)
\* a variant without the guard for a zero-width range
normalizeUnguarded(value, min, max) == RDiv(RSub(value, min), RSub(max, min))

\* a variant that returns 1 for a zero-width range
normalizeOne(value, min, max) ==
    IF max = min /\ ~IsNaN(max) THEN Num(1)
    ELSE RDiv(RSub(value, min), RSub(max, min))

\* normalize: 0.5 when max === min, else (value - min) / (max - min)
normalize(value, min, max) ==
    IF max = min /\ ~IsNaN(max) THEN Rat(1, 2)
    ELSE RDiv(RSub(value, min), RSub(max, min))

\* a variant that weighs profitability 0.35
weightsSkewed ==
    [ valuationScore |-> Rat(35, 100), profitabilityScore |-> Rat(35, 100),
      debtScore |-> Rat(20, 100), roeScore |-> Rat(15, 100) ]

\* the weights of calculateUndervaluationScore
weights ==
    [ valuationScore |-> Rat(35, 100), profitabilityScore |-> Rat(30, 100),
      debtScore |-> Rat(20, 100), roeScore |-> Rat(15, 100) ]

\* Object.keys(features): the features in their order of insertion
featureKeys == <<"valuationScore", "profitabilityScore", "debtScore", "roeScore">>

RECURSIVE weightedSum(_, _)
\* the forEach loop of calculateUndervaluationScore over the first k keys
weightedSum(features, k) ==
    IF k = 0 THEN Num(0)
    ELSE RAdd(weightedSum(features, k - 1),
              RMul(features[featureKeys[k]], weights[featureKeys[k]]))

\* allMetrics: this.companies.map(c => this.analyzer.calculateMetrics(c))
mapMetrics(population) ==
    [i \in 1..Len(population) |-> calculateMetrics(population[i])] \o <<>>

\* the list of one metric over allMetrics, filtered by isValidNumber
validRatios(allMetrics, key) ==
    SelectSeq([i \in 1..Len(allMetrics) |-> allMetrics[i][key]], isValidNumber)

\* the ranges extracted by calculateUndervaluationScore
extractRanges(peRatios, margins, debtRatios) ==
    [ peMin     |-> MathMin(peRatios),   peMax     |-> MathMax(peRatios),
      marginMin |-> MathMin(margins),    marginMax |-> MathMax(margins),
      debtMin   |-> MathMin(debtRatios), debtMax   |-> MathMax(debtRatios) ]

\* the three normalize calls of the feature engineering
normalizedMetrics(metrics, r) ==
    [ pe     |-> normalize(metrics.priceToEquity, r.peMin, r.peMax),
      margin |-> normalize(metrics.profitMargin, r.marginMin, r.marginMax),
      debt   |-> normalize(metrics.debtToEquity, r.debtMin, r.debtMax) ]

\* a variant whose valuationScore is not inverted
engineerFeaturesDirect(metrics, norm) ==
    [ valuationScore     |-> norm.pe,
      profitabilityScore |-> norm.margin,
      debtScore          |-> RSub(Num(1), norm.debt),
      roeScore           |-> clamp(RDiv(metrics.roe, Num(30)), Num(0), Num(1)) ]

\* the features object
engineerFeatures(metrics, norm) ==
    [ valuationScore     |-> RSub(Num(1), norm.pe),
      profitabilityScore |-> norm.margin,
      debtScore          |-> RSub(Num(1), norm.debt),
      roeScore           |-> clamp(RDiv(metrics.roe, Num(30)), Num(0), Num(1)) ]

\* the local variables of calculateUndervaluationScore at the return statement
undervalLocals(r, norm, features, score) ==
    [ peMin |-> r.peMin, peMax |-> r.peMax,
      marginMin |-> r.marginMin, marginMax |-> r.marginMax,
      debtMin |-> r.debtMin, debtMax |-> r.debtMax,
      normPE |-> norm.pe, normMargin |-> norm.margin, normDebt |-> norm.debt,
      features |-> features, score |-> score,
      value |-> clamp(RMul(score, Num(100)), Num(0), Num(100)) ]

undervalScored(r, norm, features) ==
    undervalLocals(r, norm, features, weightedSum(features, Len(featureKeys)))

undervalNormalized(metrics, r, norm) ==
    undervalScored(r, norm, engineerFeatures(metrics, norm))

undervalRanged(metrics, r) ==
    undervalNormalized(metrics, r, normalizedMetrics(metrics, r))

\* calculateUndervaluationScore, stage by stage, with its local variables
undervalWithAll(metrics, allMetrics) ==
    undervalRanged(metrics,
                   extractRanges(validRatios(allMetrics, "priceToEquity"),
                                 validRatios(allMetrics, "profitMargin"),
                                 validRatios(allMetrics, "debtToEquity")))

undervalState(company, population) ==
    undervalWithAll(calculateMetrics(company), mapMetrics(population))

calculateUndervaluationScore(company, population) ==
    undervalState(company, population).value

\* a variant that never finds the history insufficient
insufficientHistoryNever(company) == FALSE

\* a variant that asks for two fiscal periods only
insufficientHistoryTwo(company) == Len(company.years) < 2

\* the guard of calculateMomentumScore and of the two predictions
insufficientHistory(company) == Len(company.years) < 3

\* a variant that clamps the composite without multiplying it by 100
scaleMomentumOnce(score) == clamp(score, Num(0), Num(100))

\* the return expression of calculateMomentumScore: clamp(score * 100, 0, 100)
scaleMomentum(score) == clamp(RMul(score, Num(100)), Num(0), Num(100))

\* calculateMomentumScore with its local variables at the return statement
momentumState(company) ==
    LET years == company.years
        n     == Len(years)
        revenueIncreasing ==
            Cardinality({i \in 2..n : years[i].revenue > years[i - 1].revenue})
        profitIncreasing ==
            Cardinality({i \in 2..n : years[i].netProfit > years[i - 1].netProfit})
        revenueGrowthRates ==
            [i \in 1..(n - 1) |-> growthRate(years[i].revenue, years[i + 1].revenue)] \o <<>>
        accelerating ==
            Cardinality({i \in 2..(n - 1) :
                            RGt(revenueGrowthRates[i], revenueGrowthRates[i - 1])})
        revenueMomentum == RDiv(Num(revenueIncreasing), Num(n - 1))
        profitMomentum  == RDiv(Num(profitIncreasing), Num(n - 1))
        acceleration ==
            IF n - 1 >= 2 THEN RDiv(Num(accelerating), Num(n - 2)) ELSE Num(0)
        score == RAdd(RAdd(RMul(revenueMomentum, Num(40)), RMul(profitMomentum, Num(40))),
                      RMul(acceleration, Num(20)))
    IN  IF insufficientHistory(company)
        THEN [ periods |-> n, early |-> TRUE, value |-> Num(50) ]
        ELSE [ periods |-> n, early |-> FALSE,
               revenueIncreasing |-> revenueIncreasing,
               profitIncreasing |-> profitIncreasing,
               revenueMomentum |-> revenueMomentum,
               profitMomentum |-> profitMomentum,
               acceleration |-> acceleration,
               score |-> score,
               value |-> scaleMomentum(score) ]

calculateMomentumScore(company) == momentumState(company).value

\* the value null returned by the two predictions
null == [ null |-> TRUE ]

RECURSIVE reduceSum(_, _)
\* list.reduce((a, b) => a + b, 0) over the first k elements of an integer list
reduceSum(list, k) == IF k = 0 THEN 0 ELSE reduceSum(list, k - 1) + list[k]

\* a variant whose slope divides by n * sumX2 alone
olsSlopeBiased(n, sumX, sumY, sumXY, sumX2) ==
    RDiv(Num(n * sumXY - sumX * sumY), Num(n * sumX2))

\* slope = (n * sumXY - sumX * sumY) / (n * sumX2 - sumX * sumX)
olsSlope(n, sumX, sumY, sumXY, sumX2) ==
    RDiv(Num(n * sumXY - sumX * sumY), Num(n * sumX2 - sumX * sumX))

\* intercept = (sumY - slope * sumX) / n
olsIntercept(n, sumX, sumY, slope) ==
    RDiv(RSub(Num(sumY), RMul(slope, Num(sumX))), Num(n))

\* the linear regression of the two predictions over the series ys, with its
\* local variables: x is the index 0..n-1, the line is evaluated at x = n
regressionState(ys) ==
    LET n      == Len(ys)
        xs     == [i \in 1..n |-> i - 1]
        sumX   == reduceSum(xs, n)
        sumY   == reduceSum(ys, n)
        sumXY  == reduceSum([i \in 1..n |-> xs[i] * ys[i]], n)
        sumX2  == reduceSum([i \in 1..n |-> xs[i] * xs[i]], n)
        slope  == olsSlope(n, sumX, sumY, sumXY, sumX2)
        intercept == olsIntercept(n, sumX, sumY, slope)
    IN  [ n |-> n, sumX |-> sumX, sumY |-> sumY, sumXY |-> sumXY, sumX2 |-> sumX2,
          denominator |-> n * sumX2 - sumX * sumX,
          slope |-> slope, intercept |-> intercept,
          predicted |-> RAdd(RMul(slope, Num(n)), intercept) ]

revenues(company) == [i \in 1..Len(company.years) |-> company.years[i].revenue]
profits(company) == [i \in 1..Len(company.years) |-> company.years[i].netProfit]

\* a variant that returns the fitted value without the floor at 0
predict2026RevenueUnfloored(company) ==
    IF insufficientHistory(company) THEN null
    ELSE regressionState(revenues(company)).predicted

\* predict2026Revenue: null, or Math.max(0, predictedRevenue)
predict2026Revenue(company) ==
    IF insufficientHistory(company) THEN null
    ELSE MathMax(<<Num(0), regressionState(revenues(company)).predicted>>)

\* predict2026Profit: null, or predictedProfit
predict2026Profit(company) ==
    IF insufficientHistory(company) THEN null
    ELSE regressionState(profits(company)).predicted

\* a variant that tests the growth rule before the undervalued rule
classifyDecisionGrowthFirst(healthScore, undervalScore, momentum, risk, metrics) ==
    IF RGt(momentum, Num(75)) /\ RGt(healthScore, Num(50))
    THEN [ category |-> "growth", confidence |-> Rat(8, 10) ]
    ELSE IF RGt(undervalScore, Num(70)) /\ RGt(healthScore, Num(60))
    THEN [ category |-> "undervalued", confidence |-> Rat(9, 10) ]
    ELSE IF RLt(healthScore, Num(40))
            /\ (RGt(metrics.debtToEquity, Num(3)) \/ RLt(metrics.profitMargin, Num(0)))
    THEN [ category |-> "overvalued", confidence |-> Rat(85, 100) ]
    ELSE IF risk = "low" /\ metrics.marketCap > 50000 /\ RGt(healthScore, Num(50))
    THEN [ category |-> "stable", confidence |-> Rat(85, 100) ]
    ELSE [ category |-> "neutral", confidence |-> Rat(5, 10) ]

\* the decision tree of classifyCompany
classifyDecision(healthScore, undervalScore, momentum, risk, metrics) ==
    IF RGt(undervalScore, Num(70)) /\ RGt(healthScore, Num(60))
    THEN [ category |-> "undervalued", confidence |-> Rat(9, 10) ]
    ELSE IF RLt(healthScore, Num(40))
            /\ (RGt(metrics.debtToEquity, Num(3)) \/ RLt(metrics.profitMargin, Num(0)))
    THEN [ category |-> "overvalued", confidence |-> Rat(85, 100) ]
    ELSE IF RGt(momentum, Num(75)) /\ RGt(healthScore, Num(50))
    THEN [ category |-> "growth", confidence |-> Rat(8, 10) ]
    ELSE IF risk = "low" /\ metrics.marketCap > 50000 /\ RGt(healthScore, Num(50))
    THEN [ category |-> "stable", confidence |-> Rat(85, 100) ]
    ELSE [ category |-> "neutral", confidence |-> Rat(5, 10) ]

classifyLocals(healthScore, undervalScore, momentum, risk, metrics) ==
    [ healthScore |-> healthScore, undervalScore |-> undervalScore,
      momentum |-> momentum, risk |-> risk, metrics |-> metrics,
      value |-> classifyDecision(healthScore, undervalScore, momentum, risk, metrics) ]

\* classifyCompany with its local variables at the return statement
classifyState(company, population) ==
    classifyLocals(calculateHealthScore(company),
                   calculateUndervaluationScore(company, population),
                   calculateMomentumScore(company),
                   calculateRisk(company),
                   calculateMetrics(company))

classifyCompany(company, population) == classifyState(company, population).value

insight(type, text) == [ type |-> type, text |-> text ]

\* the health block of generateInsights
healthInsights(healthScore) ==
    IF RGt(healthScore, Num(70))
    THEN <<insight("positive", "Strong financial health with solid fundamentals")>>
    ELSE IF RLt(healthScore, Num(40))
    THEN <<insight("negative", "Weak financial health - caution advised")>>
    ELSE <<>>

\* a variant whose two valuation tests are independent
valuationInsightsBoth(undervalScore, metrics) ==
    (IF RGt(undervalScore, Num(70))
     THEN <<insight("positive", "Potentially undervalued with good upside")>> ELSE <<>>)
    \o (IF RGt(metrics.priceToEquity, Num(8))
        THEN <<insight("warning", "High valuation - may be overpriced")>> ELSE <<>>)

\* the valuation block of generateInsights
valuationInsights(undervalScore, metrics) ==
    IF RGt(undervalScore, Num(70))
    THEN <<insight("positive", "Potentially undervalued with good upside")>>
    ELSE IF RGt(metrics.priceToEquity, Num(8))
    THEN <<insight("warning", "High valuation - may be overpriced")>>
    ELSE <<>>

\* a variant whose positive branch starts at the neutral 50
momentumInsightsFifty(momentum) ==
    IF RGe(momentum, Num(50))
    THEN <<insight("positive", "Strong positive momentum in growth")>>
    ELSE IF RLt(momentum, Num(30))
    THEN <<insight("negative", "Declining momentum - growth slowing")>>
    ELSE <<>>

\* the momentum block of generateInsights
momentumInsights(momentum) ==
    IF RGt(momentum, Num(75))
    THEN <<insight("positive", "Strong positive momentum in growth")>>
    ELSE IF RLt(momentum, Num(30))
    THEN <<insight("negative", "Declining momentum - growth slowing")>>
    ELSE <<>>

\* the debt block of generateInsights
debtInsights(metrics) ==
    IF RGt(metrics.debtToEquity, Num(3))
    THEN <<insight("negative", "High debt levels pose risk")>>
    ELSE IF RLt(metrics.debtToEquity, Rat(1, 2))
    THEN <<insight("positive", "Low debt provides financial flexibility")>>
    ELSE <<>>

\* the profitability block of generateInsights
profitabilityInsights(metrics) ==
    IF RGt(metrics.profitMargin, Num(20))
    THEN <<insight("positive", "Excellent profit margins")>>
    ELSE IF RLt(metrics.profitMargin, Num(0))
    THEN <<insight("negative", "Company is currently unprofitable")>>
    ELSE <<>>

\* the object generateInsights returns, from its local variables
insightsFrom(scores, metrics, classification, predictions) ==
    [ healthScore |-> scores.healthScore,
      undervalScore |-> scores.undervalScore,
      momentum |-> scores.momentum,
      classification |-> classification,
      predicted2026Revenue |-> predictions.predicted2026Revenue,
      predicted2026Profit |-> predictions.predicted2026Profit,
      insights |-> healthInsights(scores.healthScore)
                   \o valuationInsights(scores.undervalScore, metrics)
                   \o momentumInsights(scores.momentum)
                   \o debtInsights(metrics)
                   \o profitabilityInsights(metrics) ]

generateInsights(company, population) ==
    insightsFrom([ healthScore |-> calculateHealthScore(company),
                   undervalScore |-> calculateUndervaluationScore(company, population),
                   momentum |-> calculateMomentumScore(company) ],
                 calculateMetrics(company),
                 classifyCompany(company, population),
                 [ predicted2026Revenue |-> predict2026Revenue(company),
                   predicted2026Profit |-> predict2026Profit(company) ])

\* a variant that returns the entries in reverse order
analyzeAllWithMLReversed(population) ==
    [ i \in 1..Len(population) |->
        [ company |-> population[Len(population) + 1 - i].company,
          ticker  |-> population[Len(population) + 1 - i].ticker,
          sector  |-> population[Len(population) + 1 - i].sector,
          years   |-> population[Len(population) + 1 - i].years,
          ml      |-> generateInsights(population[Len(population) + 1 - i], population) ] ]

\* analyzeAllWithML: { ...company, ml: generateInsights(company) } per company
analyzeAllWithML(population) ==
    [ i \in 1..Len(population) |->
        [ company |-> population[i].company,
          ticker  |-> population[i].ticker,
          sector  |-> population[i].sector,
          years   |-> population[i].years,
          ml      |-> generateInsights(population[i], population) ] ]

RECURSIVE unique(_)
\* Utils.unique: [...new Set(arr)], the values in order of first occurrence
unique(arr) ==
    IF arr = <<>> THEN <<>>
    ELSE LET front == unique(SubSeq(arr, 1, Len(arr) - 1))
             last  == arr[Len(arr)]
         IN  IF last \in Range(front) THEN front ELSE Append(front, last)

RECURSIVE ratSum(_, _)
\* arr.reduce((sum, val) => sum + val, 0) over the first k elements
ratSum(arr, k) == IF k = 0 THEN Num(0) ELSE RAdd(ratSum(arr, k - 1), arr[k])

\* Utils.average: 0 of an empty list, else the sum divided by the length
average(arr) ==
    IF Len(arr) = 0 THEN Num(0) ELSE RDiv(ratSum(arr, Len(arr)), Num(Len(arr)))

\* a variant that weighs momentum 0.4 and health 0.6
sectorScoreSwapped(avgMomentum, avgHealth) ==
    RAdd(RMul(avgMomentum, Rat(4, 10)), RMul(avgHealth, Rat(6, 10)))

\* score: (avgMomentum * 0.6) + (avgHealth * 0.4)
sectorScore(avgMomentum, avgHealth) ==
    RAdd(RMul(avgMomentum, Rat(6, 10)), RMul(avgHealth, Rat(4, 10)))

sectorSummaryOf(sector, avgMomentum, avgHealth) ==
    [ sector |-> sector, momentum |-> avgMomentum, health |-> avgHealth,
      score |-> sectorScore(avgMomentum, avgHealth) ]

\* the summary getSectorPredictions builds for one sector
sectorSummary(sector, population) ==
    LET sectorCompanies == SelectSeq(population, LAMBDA c : c.sector = sector)
    IN  sectorSummaryOf(
            sector,
            average([i \in 1..Len(sectorCompanies) |->
                        calculateMomentumScore(sectorCompanies[i])]),
            average([i \in 1..Len(sectorCompanies) |->
                        calculateHealthScore(sectorCompanies[i])]))

\* the place of x in the list sorted so far: behind every element whose score
\* is not smaller (the comparator b.score - a.score of a stable sort)
insertByScore(sorted, x) ==
    LET k == Cardinality({i \in 1..Len(sorted) : RGe(sorted[i].score, x.score)})
    IN  SubSeq(sorted, 1, k) \o <<x>> \o SubSeq(sorted, k + 1, Len(sorted))

RECURSIVE sortByScoreDesc(_)
\* .sort((a, b) => b.score - a.score)
sortByScoreDesc(list) ==
    IF list = <<>> THEN <<>>
    ELSE insertByScore(sortByScoreDesc(SubSeq(list, 1, Len(list) - 1)), list[Len(list)])

getSectorPredictions(population) ==
    LET sectors == unique([i \in 1..Len(population) |-> population[i].sector])
    IN  sortByScoreDesc([k \in 1..Len(sectors) |-> sectorSummary(sectors[k], population)])

(***************************************************************************)
(* DataLoader, ChartManager and App (src/js)                               *)
(***************************************************************************)
\* the value of a property an object does not have, kept apart from every
\* text the program produces (it stands where a text is expected)
undefined == "undefined"

\* new FinancialAnalyzer(companies) and new MLEngine(companies, analyzer):
\* both hold the loader's companies array itself, the variable companies
newFinancialAnalyzer == [class |-> "FinancialAnalyzer"]
newMLEngine == [class |-> "MLEngine"]

\* App as its constructor leaves it; stocksGrid is the content of the page's
\* stocks grid, empty until renderStocks fills it.  Texts the program
\* searches in are lists of characters: searchQuery is the empty text
appConstructed ==
    [ analyzer |-> null, mlEngine |-> null,
      currentCategory |-> "all", currentSector |-> "all", currentRisk |-> "all",
      searchQuery |-> <<>>, allAnalyzedData |-> <<>>, stocksGrid |-> <<>> ]

\* a CSV cell parsed with dynamicTyping: <<>> for an empty cell (null), else
\* the one-element list of its value
emptyCell == <<>>

\* !ticker for a cell of the Ticker column: null and the empty text are falsy
noTicker(cell) == cell = emptyCell \/ cell[1] = ""

\* cell || 0 for a cell of a number column: null and 0 are falsy
orZero(cell) == IF cell = emptyCell \/ cell[1] = 0 THEN 0 ELSE cell[1]

\* key.trim() on the header texts
trim(key) ==
    CASE key = " Ticker" -> "Ticker"
      [] key = "FY " -> "FY"
      [] key = " Revenue_Cr " -> "Revenue_Cr"
      [] OTHER -> key

\* the first step of processData: every row re-keyed by its trimmed headers
cleanHeaders(row) ==
    [ cleanKey \in {trim(key) : key \in DOMAIN row} |->
        row[CHOOSE key \in DOMAIN row : trim(key) = cleanKey] ]

RECURSIVE indexOf(_, _, _)
\* the first position from i on at which the text pat occurs in the text s
\* (texts are lists of characters), 0 when there is none
indexOf(s, pat, i) ==
    IF i + Len(pat) - 1 > Len(s) THEN 0
    ELSE IF SubSeq(s, i, i + Len(pat) - 1) = pat THEN i
    ELSE indexOf(s, pat, i + 1)

\* s.replace(pat, ''): the first occurrence of pat removed
replaceFirst(s, pat) ==
    LET k == indexOf(s, pat, 1)
    IN  IF k = 0 THEN s ELSE SubSeq(s, 1, k - 1) \o SubSeq(s, k + Len(pat), Len(s))

\* the characters of a ticker, company name or sector
chars(text) ==
    CASE text = "T1" -> <<"T", "1">>
      [] text = "T2" -> <<"T", "2">>
      [] text = "T3" -> <<"T", "3">>
      [] text = "T4" -> <<"T", "4">>
      [] text = "T5" -> <<"T", "5">>
      [] text = "S1" -> <<"S", "1">>
      [] text = "S2" -> <<"S", "2">>
      [] text = "S3" -> <<"S", "3">>

\* s.toLowerCase() on a list of characters
toLowerCase(s) ==
    [ k \in DOMAIN s |->
        CASE s[k] = "T" -> "t"
          [] s[k] = "S" -> "s"
          [] OTHER -> s[k] ]

\* s.includes(q)
includes(s, q) == indexOf(s, q, 1) # 0

digits == <<"0", "1", "2", "3", "4", "5", "6", "7", "8", "9">>

RECURSIVE leadingDigits(_, _)
\* the number of digits the text s starts with, counted from position i
leadingDigits(s, i) ==
    IF i > Len(s) \/ ~(\E d \in DOMAIN digits : digits[d] = s[i]) THEN 0
    ELSE 1 + leadingDigits(s, i + 1)

RECURSIVE digitsValue(_, _)
\* the number written by the first k characters of s, all digits
digitsValue(s, k) ==
    IF k = 0 THEN 0
    ELSE 10 * digitsValue(s, k - 1) + (CHOOSE d \in DOMAIN digits : digits[d] = s[k]) - 1

\* parseInt of a text without sign or leading blanks: the number its leading
\* digits write, NaN when it starts with no digit
parseInt(s) ==
    LET k == leadingDigits(s, 1)
    IN  IF k = 0 THEN [n |-> 0, d |-> 0] ELSE Num(digitsValue(s, k))

\* the comparator of the years sort: yearA - yearB
compareYears(a, b) ==
    RSub(parseInt(replaceFirst(a.fy, <<"F", "Y">>)), parseInt(replaceFirst(b.fy, <<"F", "Y">>)))

RECURSIVE insertYear(_, _)
\* y put into the sorted list: before the records the comparator places
\* after it, behind those it places before it or ranks equal (a stable sort)
insertYear(sorted, y) ==
    IF sorted = <<>> THEN <<y>>
    ELSE IF RGt(compareYears(sorted[Len(sorted)], y), Num(0))
    THEN Append(insertYear(SubSeq(sorted, 1, Len(sorted) - 1), y), sorted[Len(sorted)])
    ELSE Append(sorted, y)

RECURSIVE sortYears(_, _)
\* company.years.sort(...) over the first k records
sortYears(years, k) ==
    IF k = 0 THEN <<>> ELSE insertYear(sortYears(years, k - 1), years[k])

\* the fiscal record pushed for a row
yearOf(row) ==
    [ fy |-> row.FY,
      revenue     |-> orZero(row.Revenue_Cr),
      netProfit   |-> orZero(row.Net_Profit_Cr),
      totalDebt   |-> orZero(row.Total_Debt_Cr),
      totalEquity |-> orZero(row.Total_Equity_Cr),
      marketCap   |-> orZero(row.Market_Cap_Cr) ]

RECURSIVE groupRows(_, _)
\* companyGroups after the first k rows, in the order the tickers were first
\* seen (the order of Object.values for keys that are not integers)
groupRows(rows, k) ==
    IF k = 0 THEN <<>>
    ELSE LET groups == groupRows(rows, k - 1)
             row    == rows[k]
         IN  IF noTicker(row.Ticker) THEN groups
             ELSE IF \E j \in DOMAIN groups : groups[j].ticker = row.Ticker[1]
             THEN [ j \in DOMAIN groups |->
                      IF groups[j].ticker = row.Ticker[1]
                      THEN [groups[j] EXCEPT !.years = Append(@, yearOf(row))]
                      ELSE groups[j] ]
             ELSE Append(groups, [ company |-> row.Company, ticker |-> row.Ticker[1],
                                   sector |-> row.Sector, years |-> <<yearOf(row)>> ])

\* processData: the companies built from the raw rows
processData(rawData) ==
    LET cleaned == [k \in 1..Len(rawData) |-> cleanHeaders(rawData[k])]
        groups  == groupRows(cleaned, Len(cleaned))
    IN  [ j \in 1..Len(groups) |->
            [groups[j] EXCEPT !.years = sortYears(@, Len(@))] ]

\* toLowerCase on the texts a risk field can hold
lowerRisk(risk) ==
    CASE risk \in {"LOW", "Low"} -> "low"
      [] risk \in {"MEDIUM", "Medium"} -> "medium"
      [] risk \in {"HIGH", "High"} -> "high"
      [] OTHER -> risk

\* the switch of createRiskReturnChart on item.risk?.toLowerCase(): the x
\* value of the point, and whether the default branch warned 'Invalid risk
\* value' and fell back to medium
riskValue(risk) ==
    LET key == IF risk = undefined THEN undefined ELSE lowerRisk(risk)
    IN  CASE key = "low" -> [x |-> 1, invalid |-> FALSE]
          [] key = "medium" -> [x |-> 2, invalid |-> FALSE]
          [] key = "high" -> [x |-> 3, invalid |-> FALSE]
          [] OTHER -> [x |-> 2, invalid |-> TRUE]

\* createRiskReturnChart: the points it plots; without the canvas it returns
\* before mapping the data
createRiskReturnChart(riskReturnData, canvas) ==
    IF ~canvas THEN <<>>
    ELSE [ i \in 1..Len(riskReturnData) |->
             [ x |-> riskValue(riskReturnData[i].risk).x,
               invalid |-> riskValue(riskReturnData[i].risk).invalid,
               y |-> riskReturnData[i].potentialReturn,
               company |-> riskReturnData[i].company,
               ticker |-> riskReturnData[i].ticker ] ]

\* findUndervalued
findUndervalued(population) ==
    LET kept == SelectSeq(population, LAMBDA company :
                    /\ RGt(calculateHealthScore(company), Num(60))
                    /\ RLt(calculateMetrics(company).priceToEquity, Num(3))
                    /\ RGt(calculateMetrics(company).profitMargin, Num(5))
                    /\ RLt(calculateMetrics(company).debtToEquity, Num(2)))
    IN  [ i \in 1..Len(kept) |->
            [ company |-> kept[i].company, ticker |-> kept[i].ticker,
              sector |-> kept[i].sector, years |-> kept[i].years,
              metrics |-> calculateMetrics(kept[i]),
              healthScore |-> calculateHealthScore(kept[i]) ] ]

\* findOvervalued
findOvervalued(population) ==
    LET kept == SelectSeq(population, LAMBDA company :
                    /\ RLt(calculateHealthScore(company), Num(40))
                    /\ \/ RGt(calculateMetrics(company).priceToEquity, Num(5))
                       \/ RLt(calculateMetrics(company).profitMargin, Num(0))
                       \/ RGt(calculateMetrics(company).debtToEquity, Num(3)))
    IN  [ i \in 1..Len(kept) |->
            [ company |-> kept[i].company, ticker |-> kept[i].ticker,
              sector |-> kept[i].sector, years |-> kept[i].years,
              metrics |-> calculateMetrics(kept[i]),
              healthScore |-> calculateHealthScore(kept[i]) ] ]

\* getRiskReturnData: risk is read from the company object itself
getRiskReturnData(population) ==
    [ i \in 1..Len(population) |->
        [ company |-> population[i].company,
          ticker  |-> population[i].ticker,
          sector  |-> population[i].sector,
          risk    |-> IF "risk" \in DOMAIN population[i]
                      THEN population[i].risk ELSE undefined,
          potentialReturn |-> calculatePotentialReturn(population[i]),
          healthScore |-> calculateHealthScore(population[i]),
          metrics |-> calculateMetrics(population[i]) ] ]

\* getLatestData: a new array of { ...company, latest, historicalData }
getLatestData(population) ==
    [ i \in 1..Len(population) |->
        [ company |-> population[i].company, ticker |-> population[i].ticker,
          sector |-> population[i].sector, years |-> population[i].years,
          latest |-> latestYear(population[i]),
          historicalData |-> population[i].years ] ]

\* a[prop] || 0 in Utils.sortBy
propOrZero(a, prop) == IF prop \in DOMAIN a THEN a[prop] ELSE 0

RECURSIVE sortBy(_, _, _)
\* Utils.sortBy: a stable sort by desc ? bVal - aVal : aVal - bVal
sortBy(arr, prop, desc) ==
    IF arr = <<>> THEN <<>>
    ELSE LET sorted == sortBy(SubSeq(arr, 1, Len(arr) - 1), prop, desc)
             x == arr[Len(arr)]
             k == Cardinality({i \in 1..Len(sorted) :
                     IF desc THEN propOrZero(sorted[i], prop) >= propOrZero(x, prop)
                     ELSE propOrZero(sorted[i], prop) <= propOrZero(x, prop)})
         IN  SubSeq(sorted, 1, k) \o <<x>> \o SubSeq(sorted, k + 1, Len(sorted))

\* .slice(0, limit)
slice(arr, limit) == SubSeq(arr, 1, IF limit < Len(arr) THEN limit ELSE Len(arr))

\* getTopByMarketCap
getTopByMarketCap(population, limit) ==
    slice(sortBy(getLatestData(population), "latest.marketCap", TRUE), limit)

RECURSIVE sortByLatest(_, _)
\* companies.sort((a, b) => b.latest[field] - a.latest[field]) of the two
\* chart functions: the array after the sort, which works in place
sortByLatest(arr, field) ==
    IF arr = <<>> THEN <<>>
    ELSE LET sorted == sortByLatest(SubSeq(arr, 1, Len(arr) - 1), field)
             x == arr[Len(arr)]
             k == Cardinality({i \in 1..Len(sorted) :
                     latestYear(sorted[i])[field] >= latestYear(x)[field]})
         IN  SubSeq(sorted, 1, k) \o <<x>> \o SubSeq(sorted, k + 1, Len(sorted))

\* createRevenueGrowthChart: the companies array it leaves behind; without
\* the canvas it returns before the sort
createRevenueGrowthChart(arr, canvas) ==
    IF canvas THEN sortByLatest(arr, "revenue") ELSE arr

\* createDebtEquityChart: the companies array it leaves behind
createDebtEquityChart(arr, canvas) ==
    IF canvas THEN sortByLatest(arr, "marketCap") ELSE arr

\* a variant in which a category other than 'all' switches the other
\* filters off
filterStocksCategoryOnly(data, category, sector, risk, searchQuery) ==
    SelectSeq(data, LAMBDA c :
        IF category # "all" THEN c.ml.classification.category = category
        ELSE /\ sector # "all" => c.sector = sector
             /\ risk # "all" => calculateRisk(c) = risk
             /\ searchQuery # <<>> =>
                    \/ includes(toLowerCase(chars(c.company)), searchQuery)
                    \/ includes(toLowerCase(chars(c.ticker)), searchQuery)
                    \/ includes(toLowerCase(chars(c.sector)), searchQuery))

\* the filters of renderStocks over allAnalyzedData; the search filter is
\* skipped for the empty query
filterStocks(data, category, sector, risk, searchQuery) ==
    SelectSeq(data, LAMBDA c :
        /\ category # "all" => c.ml.classification.category = category
        /\ sector # "all" => c.sector = sector
        /\ risk # "all" => calculateRisk(c) = risk
        /\ searchQuery # <<>> =>
               \/ includes(toLowerCase(chars(c.company)), searchQuery)
               \/ includes(toLowerCase(chars(c.ticker)), searchQuery)
               \/ includes(toLowerCase(chars(c.sector)), searchQuery))

\* the cards renderStocks writes into the grid (none: the 'no companies'
\* message)
stockCards(filteredData) ==
    [ i \in 1..Len(filteredData) |->
        [ ticker |-> filteredData[i].ticker,
          category |-> filteredData[i].ml.classification.category,
          risk |-> calculateRisk(filteredData[i]) ] ]

\* the delay the search handler passes to Utils.debounce, in ticks of 100 ms
Wait == 3

\* the id setTimeout returns: one no active timer of the page has
timerId(timers) ==
    CHOOSE id \in 1..(Cardinality(timers) + 1) : \A t \in timers : t.id # id

\* a variant that leaves the timer active
clearTimeoutKeeps(timers, id) == timers

\* clearTimeout(id) on the page's active timers; an id of no active timer
\* (undefined before the first call, 0 here) clears nothing
clearTimeout(timers, id) == {t \in timers : t.id # id}

\* the closure Utils.debounce returns, before its first call: the page's
\* timers set by it and its variable timeout
debounce == [timers |-> {}, timeout |-> 0]

\* executedFunction(...args) at the time now: the pending timer is cleared
\* and a new one is set, whose callback later closes over args
executedFunction(d, args, now) ==
    LET cleared == clearTimeout(d.timers, d.timeout)
        id == timerId(cleared)
    IN  [ timers |-> cleared \cup {[id |-> id, due |-> now + Wait, args |-> args]},
          timeout |-> id ]

\* later, the callback of the timer t, up to its call of func: t has left
\* the active timers when the page runs its callback
later(d, t) == [d EXCEPT !.timers = clearTimeout(d.timers \ {t}, d.timeout)]

\* App on a page: the fields of App, the page's elements (page), the
\* position of init (pc: "constructed", "loadCSV" while it awaits the load,
\* "continue" once the load has settled and init's continuation is queued,
\* "done"), how the load settled, the handlers registered, the calls of
\* hideLoading, the notifications shown, the cards of the dashboard's top
\* companies, whether renderStocks has written the grid, the text of the
\* search box and the debounced search handler
pageConstructed(page) ==
    [ analyzer |-> appConstructed.analyzer, mlEngine |-> appConstructed.mlEngine,
      currentCategory |-> appConstructed.currentCategory,
      currentSector |-> appConstructed.currentSector,
      currentRisk |-> appConstructed.currentRisk,
      searchQuery |-> appConstructed.searchQuery,
      allAnalyzedData |-> appConstructed.allAnalyzedData,
      stocksGrid |-> appConstructed.stocksGrid,
      page |-> page, pc |-> "constructed", load |-> "none", listeners |-> {},
      loadingHidden |-> 0, notifications |-> <<>>, topCompanies |-> <<>>,
      stocksRendered |-> FALSE, searchInput |-> <<>>, search |-> debounce ]

\* a variant that does not touch the loading screen
hideLoadingNever(a) == a

\* hideLoading, counted per call
hideLoading(a) == [a EXCEPT !.loadingHidden = @ + 1]

\* Utils.notify(message, type)
notify(a, type) == [a EXCEPT !.notifications = Append(@, type)]

\* setupEventListeners: the handlers it registers, and whether it threw: the
\* last registration reads getElementById('companyModal') unguarded
setupEventListeners(a) ==
    LET registered == [a EXCEPT !.listeners = @ \cup {"nav", "category", "sector", "risk",
                                                       "search", "modalClose"}]
    IN  IF a.page.companyModal
        THEN [app |-> [registered EXCEPT !.listeners = @ \cup {"companyModal"}],
              threw |-> FALSE]
        ELSE [app |-> registered, threw |-> TRUE]

\* renderDashboard up to renderTopCompanies: it throws on topSector.avgMargin
\* when the population has no sector, and on the stat elements when the
\* page lacks them; else it writes the cards of the top companies
renderDashboard(a, population) ==
    IF population = <<>> \/ ~a.page.dashboard
    THEN [app |-> a, threw |-> TRUE]
    ELSE LET topCompanies == getTopByMarketCap(population, 12)
         IN  [app |-> [a EXCEPT !.topCompanies =
                          [i \in 1..Len(topCompanies) |-> topCompanies[i].ticker]],
              threw |-> FALSE]

\* renderStocks: without the grid it returns before writing
renderStocks(a) ==
    IF a.page.stocksGrid
    THEN [a EXCEPT !.stocksGrid = stockCards(filterStocks(a.allAnalyzedData,
                                      a.currentCategory, a.currentSector,
                                      a.currentRisk, a.searchQuery)),
                   !.stocksRendered = TRUE]
    ELSE a

\* a variant whose catch block registers the handlers
initCatchListening(a) ==
    [hideLoading(notify(setupEventListeners(a).app, "error")) EXCEPT !.pc = "done"]

\* the catch block of init
initCatch(a) == [hideLoading(notify(a, "error")) EXCEPT !.pc = "done"]

\* the try block of init after the load has resolved, with the catch block
\* for the step that throws
initTry(a, population) ==
    LET analysed == [a EXCEPT !.analyzer = newFinancialAnalyzer,
                              !.mlEngine = newMLEngine,
                              !.allAnalyzedData = analyzeAllWithML(population)]
        listening == setupEventListeners(analysed)
        dashboard == renderDashboard(listening.app, population)
    IN  IF listening.threw THEN initCatch(listening.app)
        ELSE IF dashboard.threw THEN initCatch(dashboard.app)
        ELSE [notify(hideLoading(dashboard.app), "success") EXCEPT !.pc = "done"]

(***************************************************************************)
(* Fiscal records and companies the specifications draw from.              *)
(***************************************************************************)
MkYear(i, revenue, netProfit, totalDebt, totalEquity, marketCap) ==
    [ fy |-> 2020 + i, revenue |-> revenue, netProfit |-> netProfit,
      totalDebt |-> totalDebt, totalEquity |-> totalEquity, marketCap |-> marketCap ]

MkCompany(ticker, sector, years) ==
    [ company |-> ticker, ticker |-> ticker, sector |-> sector, years |-> years ]

\* values of the latest fiscal record
RevenueVals   == {0, 1000, 1200}
NetProfitVals == {-100, 0, 40, 100, 150, 300}
DebtVals      == {200, 500, 750, 1250, 1500, 2000}
EquityVals    == {0, 500, 1000}
MarketCapVals == {1500}
\* values of the earlier fiscal records (only revenue and netProfit are read)
PrevRevenueVals   == {0, 800, 1000, 1100}
PrevNetProfitVals == {-100, 100, 125, 140}

LatestRecords(i) ==
    { MkYear(i, r, p, d, e, m) : r \in RevenueVals, p \in NetProfitVals,
                                 d \in DebtVals, e \in EquityVals, m \in MarketCapVals }

EarlierRecords(i) ==
    { MkYear(i, r, p, 200, 500, 1500) : r \in PrevRevenueVals, p \in PrevNetProfitVals }

RECURSIVE YearSeqs(_)
\* the fiscal sequences of n periods, ascending by period
YearSeqs(n) ==
    IF n = 1 THEN { <<y>> : y \in LatestRecords(1) }
    ELSE { <<e>> \o [i \in 1..(n - 1) |-> [ys[i] EXCEPT !.fy = @ + 1]] :
              e \in EarlierRecords(1), ys \in YearSeqs(n - 1) }

\* the companies of n fiscal periods
AnalyzerCompanies(n) == { MkCompany("A", "S1", ys) : ys \in YearSeqs(n) }

(***************************************************************************)
(* Specification Spec: FinancialAnalyzer over a one-company population.    *)
(***************************************************************************)
NoCall == [op |-> "none"]

Init ==
    /\ \E n \in 1..MaxYears : \E c \in AnalyzerCompanies(n) : companies = <<c>>
    /\ ret = NoCall
    /\ app = appConstructed

CalculateMetrics(i) ==
    /\ ret' = [op |-> "calculateMetrics", arg |-> i,
               value |-> calculateMetrics(companies[i])]
    /\ UNCHANGED <<companies, app>>

CalculateHealthScore(i) ==
    /\ ret' = [op |-> "calculateHealthScore", arg |-> i,
               locals |-> healthState(companies[i]),
               value |-> calculateHealthScore(companies[i])]
    /\ UNCHANGED <<companies, app>>

CalculateRisk(i) ==
    /\ ret' = [op |-> "calculateRisk", arg |-> i,
               locals |-> riskState(companies[i]),
               value |-> calculateRisk(companies[i])]
    /\ UNCHANGED <<companies, app>>

AnalyzeAll ==
    /\ ret' = [op |-> "analyzeAll", value |-> analyzeAll(companies)]
    /\ UNCHANGED <<companies, app>>

Next ==
    \E i \in DOMAIN companies :
        \/ CalculateMetrics(i)
        \/ CalculateHealthScore(i)

Spec == Init /\ [][Next]_vars

(***************************************************************************)
(* Specification SpecRisk: calculateRisk and analyzeAll over populations   *)
(* of two single-period companies.                                         *)
(***************************************************************************)
RiskNetProfitVals == {-100, 40, 60, 100}
RiskDebtVals      == {200, 750, 1250, 1500, 2000}
RiskMarketCapVals == {1500, 4000, 6500}

RiskCompanies(ticker) ==
    { MkCompany(ticker, "S1", <<MkYear(1, 1000, p, d, 500, m)>>) :
        p \in RiskNetProfitVals, d \in RiskDebtVals, m \in RiskMarketCapVals }

InitRisk ==
    /\ companies \in { <<a, b>> : a \in RiskCompanies("A"), b \in RiskCompanies("B") }
    /\ ret = NoCall
    /\ app = appConstructed

NextRisk ==
    \/ \E i \in DOMAIN companies : CalculateRisk(i)
    \/ AnalyzeAll

SpecRisk == InitRisk /\ [][NextRisk]_vars

(***************************************************************************)
(* Specification SpecML: MLEngine.calculateUndervaluationScore over        *)
(* populations of 1..MaxCompanies single-period companies.                 *)
(***************************************************************************)
MLTickers == <<"T1", "T2", "T3", "T4", "T5">>

\* the latest records (revenue, netProfit, totalDebt, totalEquity, marketCap):
\* priceToEquity 2, 5 and 10, debt-free and indebted, a loss-making record, a
\* record of moderate return and a record without equity
MLRecords ==
    { MkYear(1, 100, 40, 0, 100, 200),
      MkYear(1, 100, 40, 300, 100, 500),
      MkYear(1, 100, 40, 0, 100, 1000),
      MkYear(1, 100, -10, 300, 100, 1000),
      MkYear(1, 200, 20, 100, 100, 500),
      MkYear(1, 100, 40, 300, 0, 500) }

\* the populations of n companies
MLPopulations(n) ==
    { [i \in 1..n |-> MkCompany(MLTickers[i], "S1", <<rs[i]>>)] : rs \in [1..n -> MLRecords] }

CalculateUndervaluationScore(i) ==
    /\ LET st == undervalState(companies[i], companies)
       IN  ret' = [op |-> "calculateUndervaluationScore", arg |-> i,
                   locals |-> st, value |-> st.value]
    /\ UNCHANGED <<companies, app>>

InitML ==
    /\ \E n \in 1..MaxCompanies : companies \in MLPopulations(n)
    /\ ret = NoCall
    /\ app = appConstructed

NextML == \E i \in DOMAIN companies : CalculateUndervaluationScore(i)

SpecML == InitML /\ [][NextML]_vars

(***************************************************************************)
(* Specification SpecNormalize: normalize on drawn arguments, and inside   *)
(* calculateUndervaluationScore over populations of 1..MaxNormPop          *)
(* companies.                                                              *)
(***************************************************************************)
NormalizeArgs == { Num(0), Num(2), Num(5) }

Normalize(value, min, max) ==
    /\ ret' = [op |-> "normalize", args |-> <<value, min, max>>,
               value |-> normalize(value, min, max)]
    /\ UNCHANGED <<companies, app>>

InitNormalize ==
    /\ \E n \in 1..MaxNormPop : companies \in MLPopulations(n)
    /\ ret = NoCall
    /\ app = appConstructed

NextNormalize ==
    \/ \E i \in DOMAIN companies : CalculateUndervaluationScore(i)
    \/ \E value, min, max \in NormalizeArgs : Normalize(value, min, max)

SpecNormalize == InitNormalize /\ [][NextNormalize]_vars

(***************************************************************************)
(* Specification SpecTrend: calculateMomentumScore and the two predictions *)
(* over one company, with a short history of 1..MaxPeriods periods drawn   *)
(* exhaustively or with a long history of a few shapes.                    *)
(***************************************************************************)
\* fiscal periods of the short histories
MaxPeriods == 3

TrendRevenueVals == {0, 100, 200, 300}
TrendProfitVals  == {-100, 0, 100}

TrendRecords(i) ==
    { MkYear(i, r, p, 200, 500, 1500) : r \in TrendRevenueVals, p \in TrendProfitVals }

\* the short histories of n periods
TrendSeqs(n) ==
    { [i \in 1..n |-> [rs[i] EXCEPT !.fy = 2020 + i]] : rs \in [1..n -> TrendRecords(1)] }

\* the lengths of the long histories
LongPeriods == {23, 42}

\* a long history: one value in the first period, another in all later ones
LongSeqs(n) ==
    { [i \in 1..n |-> MkYear(i, IF i = 1 THEN r[1] ELSE r[2],
                                IF i = 1 THEN p[1] ELSE p[2], 200, 500, 1500)] :
        r \in {<<100, 100>>, <<200, 100>>, <<100, 200>>},
        p \in {<<50, 50>>, <<50, 80>>} }

InitTrend ==
    /\ \/ \E n \in 1..MaxPeriods : \E ys \in TrendSeqs(n) :
             companies = <<MkCompany("A", "S1", ys)>>
       \/ \E n \in LongPeriods : \E ys \in LongSeqs(n) :
             companies = <<MkCompany("A", "S1", ys)>>
    /\ ret = NoCall
    /\ app = appConstructed

CalculateMomentumScore(i) ==
    /\ LET st == momentumState(companies[i])
       IN  ret' = [op |-> "calculateMomentumScore", arg |-> i,
                   locals |-> st, value |-> st.value]
    /\ UNCHANGED <<companies, app>>

Predict2026Revenue(i) ==
    /\ ret' = [op |-> "predict2026Revenue", arg |-> i,
               locals |-> IF insufficientHistory(companies[i]) THEN null
                          ELSE regressionState(revenues(companies[i])),
               value |-> predict2026Revenue(companies[i])]
    /\ UNCHANGED <<companies, app>>

Predict2026Profit(i) ==
    /\ ret' = [op |-> "predict2026Profit", arg |-> i,
               locals |-> IF insufficientHistory(companies[i]) THEN null
                          ELSE regressionState(profits(companies[i])),
               value |-> predict2026Profit(companies[i])]
    /\ UNCHANGED <<companies, app>>

NextTrend ==
    \E i \in DOMAIN companies :
        \/ CalculateMomentumScore(i)
        \/ Predict2026Revenue(i)
        \/ Predict2026Profit(i)

SpecTrend == InitTrend /\ [][NextTrend]_vars

(***************************************************************************)
(* Specification SpecInsights: classifyCompany, generateInsights,          *)
(* analyzeAllWithML and analyzeAll over populations of 1..MaxInsightPop    *)
(* companies drawn from seven profiles.                                      *)
(***************************************************************************)
\* companies per population in the insights specification
MaxInsightPop == 2

Profile(sector, rows) ==
    [ sector |-> sector,
      years  |-> [i \in 1..Len(rows) |->
                    MkYear(i, rows[i][1], rows[i][2], rows[i][3], rows[i][4], rows[i][5])] ]

\* the profiles (rows are revenue, netProfit, totalDebt, totalEquity,
\* marketCap): a rising company of full health and low price, a loss-making
\* indebted one, a large flat one, a small weak one, a rising dear one, a
\* shrinking profitable one and a rising healthy one of two periods
Profiles ==
    { Profile("S1", << <<800, 160, 100, 1000, 1000>>, <<1000, 220, 100, 1000, 1000>>,
                       <<1300, 300, 100, 1000, 1000>> >>),
      Profile("S2", << <<1000, -100, 2000, 500, 4000>> >>),
      Profile("S3", << <<1000, 120, 400, 1000, 60000>>, <<1000, 120, 400, 1000, 60000>> >>),
      Profile("S2", << <<1000, 60, 800, 1000, 3000>> >>),
      Profile("S1", << <<500, 50, 600, 1000, 20000>>, <<700, 80, 600, 1000, 20000>>,
                       <<1000, 130, 600, 1000, 20000>> >>),
      Profile("S3", << <<1500, 400, 100, 1000, 9000>>, <<1200, 350, 100, 1000, 9000>>,
                       <<1000, 300, 100, 1000, 9000>> >>),
      Profile("S2", << <<1000, 220, 100, 1000, 1000>>, <<1300, 300, 100, 1000, 1000>> >>) }

\* the populations of n companies, tickers unique
InsightPopulations(n) ==
    { [i \in 1..n |-> MkCompany(MLTickers[i], ps[i].sector, ps[i].years)] :
        ps \in [1..n -> Profiles] }

InitInsights ==
    /\ \E n \in 1..MaxInsightPop : companies \in InsightPopulations(n)
    /\ ret = NoCall
    /\ app = appConstructed

ClassifyCompany(i) ==
    /\ LET st == classifyState(companies[i], companies)
       IN  ret' = [op |-> "classifyCompany", arg |-> i,
                   locals |-> st, value |-> st.value]
    /\ UNCHANGED <<companies, app>>

GenerateInsights(i) ==
    /\ ret' = [op |-> "generateInsights", arg |-> i,
               value |-> generateInsights(companies[i], companies)]
    /\ UNCHANGED <<companies, app>>

AnalyzeAllWithML ==
    /\ ret' = [op |-> "analyzeAllWithML", value |-> analyzeAllWithML(companies)]
    /\ UNCHANGED <<companies, app>>

GetSectorPredictions ==
    /\ ret' = [op |-> "getSectorPredictions", value |-> getSectorPredictions(companies)]
    /\ UNCHANGED <<companies, app>>

NextInsights ==
    \/ \E i \in DOMAIN companies : ClassifyCompany(i)
    \/ \E i \in DOMAIN companies : GenerateInsights(i)
    \/ AnalyzeAllWithML
    \/ AnalyzeAll

SpecInsights == InitInsights /\ [][NextInsights]_vars

(***************************************************************************)
(* Specification SpecSector: getSectorPredictions over populations of      *)
(* 1..MaxCompanies companies drawn from the seven profiles.                  *)
(***************************************************************************)
InitSector ==
    /\ \E n \in 1..MaxCompanies : companies \in InsightPopulations(n)
    /\ ret = NoCall
    /\ app = appConstructed

NextSector == GetSectorPredictions

SpecSector == InitSector /\ [][NextSector]_vars

(***************************************************************************)
(* Specification SpecApp: the section renders of App after init has loaded *)
(* the population and analysed it, with direct calls of the two analyses.  *)
(* Whether the page holds the element a render looks up is an input.       *)
(***************************************************************************)
\* companies per population in the application specification
MaxAppPop == 2

InitApp ==
    /\ \E n \in 1..MaxAppPop : companies \in InsightPopulations(n)
    /\ ret = NoCall
    /\ app = [appConstructed EXCEPT !.analyzer = newFinancialAnalyzer,
                                    !.mlEngine = newMLEngine,
                                    !.allAnalyzedData = analyzeAllWithML(companies)]

RenderDashboard ==
    /\ LET topCompanies == getTopByMarketCap(companies, 12)
       IN  ret' = [op |-> "renderDashboard",
                   undervaluedCount |-> Len(findUndervalued(companies)),
                   overvaluedCount |-> Len(findOvervalued(companies)),
                   topCompanies |->
                       [ i \in 1..Len(topCompanies) |->
                           [ ticker |-> topCompanies[i].ticker,
                             healthScore |-> calculateHealthScore(topCompanies[i]),
                             classification |->
                                 classifyCompany(topCompanies[i], companies) ] ]]
    /\ UNCHANGED <<companies, app>>

RenderSectors ==
    /\ ret' = [op |-> "renderSectors",
               sectorPredictions |-> getSectorPredictions(companies)]
    /\ UNCHANGED <<companies, app>>

RenderStocks(container) ==
    /\ LET filteredData == filterStocks(app.allAnalyzedData, app.currentCategory,
                                        app.currentSector, app.currentRisk,
                                        app.searchQuery)
       IN  /\ ret' = [op |-> "renderStocks",
                      filteredData |-> [i \in 1..Len(filteredData) |->
                                           filteredData[i].ticker]]
           /\ app' = IF container
                     THEN [app EXCEPT !.stocksGrid = stockCards(filteredData)]
                     ELSE app
    /\ UNCHANGED companies

RenderAnalysis(riskCanvas, revenueCanvas, debtCanvas) ==
    /\ ret' = [op |-> "renderAnalysis",
               riskReturnData |-> getRiskReturnData(companies),
               riskReturnChart |->
                   createRiskReturnChart(getRiskReturnData(companies), riskCanvas)]
    /\ companies' = createDebtEquityChart(
                        createRevenueGrowthChart(companies, revenueCanvas), debtCanvas)
    /\ UNCHANGED app

GetTopByMarketCap(limit) ==
    /\ ret' = [op |-> "getTopByMarketCap", limit |-> limit,
               value |-> getTopByMarketCap(companies, limit)]
    /\ UNCHANGED <<companies, app>>

NextApp ==
    \/ RenderDashboard
    \/ RenderSectors
    \/ \E container \in BOOLEAN : RenderStocks(container)
    \/ \E riskCanvas, revenueCanvas, debtCanvas \in BOOLEAN :
          RenderAnalysis(riskCanvas, revenueCanvas, debtCanvas)
    \/ \E limit \in 0..(MaxAppPop + 1) : GetTopByMarketCap(limit)
    \/ AnalyzeAllWithML
    \/ AnalyzeAll

SpecApp == InitApp /\ [][NextApp]_vars

(***************************************************************************)
(* Specification SpecSparse: the nine scoring functions of                 *)
(* FinancialAnalyzer and MLEngine over populations of 1..MaxSparsePop      *)
(* companies whose records hold zeros: the first company has 1..MaxPeriods *)
(* periods, the others are single-period peers.                            *)
(***************************************************************************)
\* companies per population in the sparse specification
MaxSparsePop == 2

\* the latest records (revenue, netProfit, totalDebt, totalEquity,
\* marketCap): all zero, no revenue, no equity, neither, a plain record and
\* one of negative equity
SparseRecords ==
    { MkYear(1, 0, 0, 0, 0, 0),
      MkYear(1, 0, -50, 100, 100, 200),
      MkYear(1, 100, 10, 100, 0, 200),
      MkYear(1, 0, 10, 100, 0, 200),
      MkYear(1, 100, 10, 50, 100, 200),
      MkYear(1, 100, 10, 50, -100, 200) }

\* the records of the longer histories
SparseTrendRecords ==
    { MkYear(1, 0, 0, 0, 0, 0),
      MkYear(1, 100, 10, 50, 100, 200),
      MkYear(1, 200, -50, 0, 0, 0) }

\* the records of the single-period peers
SparsePeerRecords ==
    { MkYear(1, 0, 0, 0, 0, 0), MkYear(1, 100, 10, 50, 100, 200) }

\* the histories of n periods
SparseHistories(n) ==
    IF n = 1 THEN { <<y>> : y \in SparseRecords }
    ELSE { [i \in 1..n |-> [rs[i] EXCEPT !.fy = 2020 + i]] :
              rs \in [1..n -> SparseTrendRecords] }

\* the populations of n companies whose first company has the history ys
SparsePopulations(n, ys) ==
    { [i \in 1..n |-> MkCompany(MLTickers[i], "S1", IF i = 1 THEN ys ELSE <<rs[i]>>)] :
        rs \in [1..n -> SparsePeerRecords] }

InitSparse ==
    /\ \E m \in 1..MaxPeriods, n \in 1..MaxSparsePop :
          \E ys \in SparseHistories(m) : companies \in SparsePopulations(n, ys)
    /\ ret = NoCall
    /\ app = appConstructed

NextSparse ==
    \E i \in DOMAIN companies :
        \/ CalculateMetrics(i)
        \/ CalculateHealthScore(i)
        \/ CalculateRisk(i)
        \/ CalculateUndervaluationScore(i)
        \/ CalculateMomentumScore(i)
        \/ Predict2026Revenue(i)
        \/ Predict2026Profit(i)
        \/ ClassifyCompany(i)
        \/ GenerateInsights(i)

SpecSparse == InitSparse /\ [][NextSparse]_vars

(***************************************************************************)
(* Specification SpecLoader: DataLoader.loadCSV completing with parsed     *)
(* rows, which processData groups into companies.                          *)
(***************************************************************************)
\* rows per parsed file
MaxRows == 3

\* the period labels of the FY column, as texts
PeriodLabels ==
    { <<"F", "Y", "2", "1">>, <<"F", "Y", "2", "2">>, <<"F", "Y", "2", "3">> }

\* a parsed row; padded tells whether the file's headers carry blanks
MkRow(padded, ticker, fy, revenue) ==
    LET tickerKey  == IF padded THEN " Ticker" ELSE "Ticker"
        fyKey      == IF padded THEN "FY " ELSE "FY"
        revenueKey == IF padded THEN " Revenue_Cr " ELSE "Revenue_Cr"
        keys == { tickerKey, fyKey, revenueKey, "Company", "Sector", "Net_Profit_Cr",
                  "Total_Debt_Cr", "Total_Equity_Cr", "Market_Cap_Cr" }
    IN  [ key \in keys |->
            CASE key = tickerKey -> ticker
              [] key = fyKey -> fy
              [] key = revenueKey -> revenue
              [] key = "Company" -> IF ticker = emptyCell THEN "" ELSE ticker[1]
              [] key = "Sector" -> "S1"
              [] key = "Net_Profit_Cr" -> <<10>>
              [] key = "Total_Debt_Cr" -> emptyCell
              [] key = "Total_Equity_Cr" -> <<100>>
              [] key = "Market_Cap_Cr" -> <<200>> ]

\* the rows of one file
RawRows(padded) ==
    { MkRow(padded, ticker, fy, revenue) :
        ticker \in {emptyCell, <<"A">>, <<"B">>}, fy \in PeriodLabels,
        revenue \in {emptyCell, <<100>>} }

InitLoader ==
    /\ companies = <<>>
    /\ ret = NoCall
    /\ app = appConstructed

\* the complete callback of loadCSV: rawData = results.data; processData().
\* App.init loads one file, once
LoadComplete(rawData) ==
    /\ ret = NoCall
    /\ companies' = processData(rawData)
    /\ ret' = [op |-> "processData",
               rawData |-> [k \in 1..Len(rawData) |-> cleanHeaders(rawData[k])]]
    /\ UNCHANGED app

NextLoader ==
    \E padded \in BOOLEAN, n \in 0..MaxRows :
        \E rawData \in [1..n -> RawRows(padded)] : LoadComplete(rawData)

SpecLoader == InitLoader /\ [][NextLoader]_vars

(***************************************************************************)
(* Specification SpecDebounce: a function returned by Utils.debounce with  *)
(* the delay Wait, called at times of a clock of 100 ms ticks.  The page   *)
(* runs a timer's callback at its due time or later.  app.log lists the    *)
(* calls of the returned function and the calls of func, oldest first.     *)
(***************************************************************************)
\* calls of the returned function per behaviour
MaxCalls == 3
\* the last tick of the clock
MaxTime == 8

\* the arguments of a call
CallArgs == {"a", "b"}

InitDebounce ==
    /\ companies = <<>>
    /\ ret = NoCall
    /\ app = [debounced |-> debounce, now |-> 0, log |-> <<>>]

\* a call of the returned function
ExecutedFunction(args) ==
    /\ Cardinality({k \in DOMAIN app.log : app.log[k].kind = "call"}) < MaxCalls
    /\ app.now + Wait <= MaxTime
    /\ app' = [app EXCEPT !.debounced = executedFunction(@, args, app.now),
                          !.log = Append(@, [kind |-> "call", args |-> args,
                                             at |-> app.now])]
    /\ ret' = [op |-> "executedFunction", args |-> args]
    /\ UNCHANGED companies

\* the page runs the callback of the due timer t: later, which calls func
Later(t) ==
    /\ t \in app.debounced.timers
    /\ app.now >= t.due
    /\ app' = [app EXCEPT !.debounced = later(@, t),
                          !.log = Append(@, [kind |-> "func", args |-> t.args,
                                             at |-> app.now])]
    /\ ret' = [op |-> "later", args |-> t.args]
    /\ UNCHANGED companies

\* 100 ms pass
Tick ==
    /\ app.now < MaxTime
    /\ app' = [app EXCEPT !.now = @ + 1]
    /\ UNCHANGED <<companies, ret>>

TimerDue == \E t \in app.debounced.timers : Later(t)

NextDebounce ==
    \/ \E args \in CallArgs : ExecutedFunction(args)
    \/ TimerDue
    \/ Tick

SpecDebounce == InitDebounce /\ [][NextDebounce]_vars

\* time passes, and the page runs the callback of a timer that stays due
FairSpecDebounce == SpecDebounce /\ WF_vars(Tick) /\ WF_vars(TimerDue)

(***************************************************************************)
(* Specification SpecPage: App from its construction on: DOMContentLoaded  *)
(* calls init, the CSV load resolves or rejects, init continues, and the   *)
(* user's events run the handlers that are registered.  The page has no    *)
(* clock here: a pending timer fires at some later step.                   *)
(***************************************************************************)
\* companies per loaded population
MaxPagePop == 2

\* which of the elements the code looks up the page holds
Pages == [companyModal : BOOLEAN, dashboard : BOOLEAN, stocksGrid : BOOLEAN]

\* the loaded populations: an empty file, or companies of two profiles, the
\* rising one of full health and the loss-making indebted one
PageProfiles ==
    {p \in Profiles : Len(p.years) # 2 /\ p.years[Len(p.years)].marketCap \in {1000, 4000}}
PagePopulations(n) ==
    { [i \in 1..n |-> MkCompany(MLTickers[i], ps[i].sector, ps[i].years)] :
        ps \in [1..n -> PageProfiles] }

\* the values of the controls
CategoryTabs == {"all", "growth"}
RiskOptions == {"all", "low"}
SearchTexts == { <<>>, <<"T", "2">>, <<"s", "1">> }
Sections == {"dashboard", "sectors", "stocks", "analysis"}

\* init as it stands when the load has resolved
Resolved(page) == [pageConstructed(page) EXCEPT !.pc = "continue", !.load = "resolved"]

\* initTry on every page and every loaded population, as a table, which is
\* evaluated once
InitTried ==
    { [page |-> page, population |-> population,
       app |-> initTry(Resolved(page), population)] :
        page \in Pages, population \in UNION {PagePopulations(n) : n \in 0..MaxPagePop} }

InitPage ==
    /\ companies = <<>>
    /\ ret = NoCall
    /\ \E page \in Pages : app = pageConstructed(page)

\* the DOMContentLoaded listener: app.init(), up to its await
DOMContentLoaded ==
    /\ app.pc = "constructed"
    /\ app' = [app EXCEPT !.pc = "loadCSV"]
    /\ ret' = [op |-> "init"]
    /\ UNCHANGED companies

\* loadCSV's complete callback: processData has built the companies, and
\* the promise resolves
LoadResolves(population) ==
    /\ app.pc = "loadCSV"
    /\ companies' = population
    /\ app' = Resolved(app.page)
    /\ ret' = [op |-> "complete"]

\* loadCSV's error callback: the promise rejects
LoadRejects ==
    /\ app.pc = "loadCSV"
    /\ app' = [app EXCEPT !.pc = "continue", !.load = "rejected"]
    /\ ret' = [op |-> "error"]
    /\ UNCHANGED companies

\* init after its await: the rest of the try block, or the catch block
InitContinues ==
    /\ app.pc = "continue"
    /\ app' = IF app.load = "rejected" THEN initCatch(app)
              ELSE (CHOOSE tried \in InitTried :
                        tried.page = app.page /\ tried.population = companies).app
    /\ ret' = [op |-> "init"]
    /\ UNCHANGED companies

\* a click on a navigation button: switchSection
NavClick(section) ==
    /\ "nav" \in app.listeners
    /\ app' = CASE section = "dashboard" -> renderDashboard(app, companies).app
                 [] section = "stocks" -> renderStocks(app)
                 [] OTHER -> app
    /\ companies' = IF section = "analysis"
                    THEN createDebtEquityChart(createRevenueGrowthChart(companies, TRUE), TRUE)
                    ELSE companies
    /\ ret' = [op |-> "switchSection", section |-> section]

\* a click on a category tab
CategoryClick(category) ==
    /\ "category" \in app.listeners
    /\ app' = renderStocks([app EXCEPT !.currentCategory = category])
    /\ ret' = [op |-> "categoryTab"]
    /\ UNCHANGED companies

\* a change of the sector filter, whose options populateFilters has filled
SectorChange(sector) ==
    /\ "sector" \in app.listeners
    /\ app' = renderStocks([app EXCEPT !.currentSector = sector])
    /\ ret' = [op |-> "sectorFilter"]
    /\ UNCHANGED companies

\* a change of the risk filter
RiskChange(risk) ==
    /\ "risk" \in app.listeners
    /\ app' = renderStocks([app EXCEPT !.currentRisk = risk])
    /\ ret' = [op |-> "riskFilter"]
    /\ UNCHANGED companies

\* an input event of the search box, whose text is now value: the debounced
\* handler is called with the event
SearchInput(value) ==
    /\ "search" \in app.listeners
    /\ app' = [app EXCEPT !.searchInput = value,
                          !.search = executedFunction(@, "input", 0)]
    /\ ret' = [op |-> "searchInput"]
    /\ UNCHANGED companies

\* the timer t of the debounced handler fires: later, and func, which reads
\* the search box
SearchTimer(t) ==
    /\ t \in app.search.timers
    /\ app' = renderStocks([app EXCEPT !.search = later(@, t),
                                       !.searchQuery = toLowerCase(app.searchInput)])
    /\ ret' = [op |-> "search"]
    /\ UNCHANGED companies

\* a click on a company card, rendered with onclick = showCompanyDetails
CardClick(ticker) ==
    /\ \/ \E k \in DOMAIN app.stocksGrid : app.stocksGrid[k].ticker = ticker
       \/ \E k \in DOMAIN app.topCompanies : app.topCompanies[k] = ticker
    /\ ret' = [op |-> "showCompanyDetails", ticker |-> ticker,
               found |-> \E k \in DOMAIN app.allAnalyzedData :
                            app.allAnalyzedData[k].ticker = ticker]
    /\ UNCHANGED <<companies, app>>

\* a click that closes the modal
ModalClick ==
    /\ app.listeners \cap {"modalClose", "companyModal"} # {}
    /\ ret' = [op |-> "closeModal"]
    /\ UNCHANGED <<companies, app>>

NextPage ==
    \/ DOMContentLoaded
    \/ \E n \in 0..MaxPagePop : \E population \in PagePopulations(n) :
          LoadResolves(population)
    \/ LoadRejects
    \/ InitContinues
    \/ \E section \in Sections : NavClick(section)
    \/ \E category \in CategoryTabs : CategoryClick(category)
    \/ \E sector \in {"all"} \cup {companies[i].sector : i \in DOMAIN companies} :
          SectorChange(sector)
    \/ \E risk \in RiskOptions : RiskChange(risk)
    \/ \E value \in SearchTexts : SearchInput(value)
    \/ \E t \in app.search.timers : SearchTimer(t)
    \/ \E ticker \in {MLTickers[i] : i \in 1..MaxPagePop} : CardClick(ticker)
    \/ ModalClick

SpecPage == InitPage /\ [][NextPage]_vars

(***************************************************************************)
(* Specification FairSpecInit: the steps of init alone, from               *)
(* DOMContentLoaded to the end of its continuation, which runs once the    *)
(* promise it awaits has settled.  Whether and when the load settles is up *)
(* to the network.  The handlers, none of which calls hideLoading or       *)
(* Utils.notify, are left to SpecPage.                                     *)
(***************************************************************************)
NextInit ==
    \/ DOMContentLoaded
    \/ \E n \in 0..MaxPagePop : \E population \in PagePopulations(n) :
          LoadResolves(population)
    \/ LoadRejects
    \/ InitContinues

FairSpecInit == InitPage /\ [][NextInit]_vars /\ WF_vars(InitContinues)

(***************************************************************************)
(* Properties.  The helpers below restate thresholds on the raw fiscal     *)
(* values by cross-multiplication, independently of the operators above.   *)
(***************************************************************************)
\* a / b > k, with the ratio read as 0 when b = 0
RatioGt(a, b, k) ==
    IF b = 0 THEN 0 > k ELSE IF b > 0 THEN a > k * b ELSE a < k * b
\* a / b < k, with the ratio read as 0 when b = 0
RatioLt(a, b, k) ==
    IF b = 0 THEN 0 < k ELSE IF b > 0 THEN a < k * b ELSE a > k * b

HealthCalled == ret.op = "calculateHealthScore"
RiskCalled == ret.op = "calculateRisk"
MetricsCalled == ret.op = "calculateMetrics"
Callee == companies[ret.arg]
CalleeLatest == Callee.years[Len(Callee.years)]

\* the single-record company of the first concrete scenario
ScenarioOne ==
    /\ Len(Callee.years) = 1
    /\ CalleeLatest.revenue = 1000
    /\ CalleeLatest.netProfit = 100
    /\ CalleeLatest.totalDebt = 200
    /\ CalleeLatest.totalEquity = 500
    /\ CalleeLatest.marketCap = 1500

\* the two-record company of the second concrete scenario
ScenarioTwo ==
    /\ Len(Callee.years) = 2
    /\ Callee.years[1].revenue = 1000
    /\ Callee.years[2].revenue = 1200
    /\ Callee.years[1].netProfit = 100
    /\ Callee.years[2].netProfit = 150

\* C1: calculateHealthScore returns a value in [0,100]; no bucket exceeds its
\* maximum (20, 20, 30, 15, 15), so the sum is at most 100 and the final
\* clamp returns the sum unchanged.
C1_HealthScoreInRange ==
    HealthCalled =>
        /\ RGe(ret.value, Num(0))
        /\ RLe(ret.value, Num(100))
        /\ ret.locals.margin \in 0..20
        /\ ret.locals.roe \in 0..20
        /\ ret.locals.leverage \in 0..30
        /\ ret.locals.revenueGrowth \in 0..15
        /\ ret.locals.profitGrowth \in 0..15
        /\ ret.locals.score = ret.locals.margin + ret.locals.roe + ret.locals.leverage
                                + ret.locals.revenueGrowth + ret.locals.profitGrowth
        /\ ret.value = Num(ret.locals.score)

\* C1 witness: a company that earns every bucket's maximum, score 100
C1_Witness == HealthCalled /\ ret.locals.score = 100 /\ ret.value = Num(100)

\* C2 as stated: the scenario company gets 15 + 15 + 30 + 0 = 60
C2_Original ==
    (HealthCalled /\ ScenarioOne) =>
        /\ ret.locals.margin = 15
        /\ ret.locals.roe = 15
        /\ ret.locals.leverage = 30
        /\ ret.locals.growth = 0
        /\ ret.value = Num(60)

\* C2 (amended): for the single record revenue=1000, netProfit=100,
\* totalDebt=200, totalEquity=500, marketCap=1500, calculateHealthScore awards
\* 10 points for profit margin (a margin of exactly 10 is not > 10), 15 for
\* ROE, 30 for leverage and 0 for growth, and returns 55.
C2_ScenarioScore ==
    (HealthCalled /\ ScenarioOne) =>
        /\ ret.locals.margin = 10
        /\ ret.locals.roe = 15
        /\ ret.locals.leverage = 30
        /\ ret.locals.growth = 0
        /\ ret.value = Num(55)

\* C2 witness: calculateHealthScore has been applied to the scenario company
C2_Witness == HealthCalled /\ ScenarioOne /\ ret.value = Num(55)

\* the profitMargin bucket scheme, on the ratio a / b * 100
MarginScheme(a, b) ==
    IF RatioGt(100 * a, b, 20) THEN 20
    ELSE IF RatioGt(100 * a, b, 10) THEN 15
    ELSE IF RatioGt(100 * a, b, 5) THEN 10
    ELSE IF RatioGt(100 * a, b, 0) THEN 5
    ELSE 0

\* the bucket scheme >20: 20, >15: 15, >10: 10, >5: 5, on the ratio a / b * 100
RoeScheme(a, b) ==
    IF RatioGt(100 * a, b, 20) THEN 20
    ELSE IF RatioGt(100 * a, b, 15) THEN 15
    ELSE IF RatioGt(100 * a, b, 10) THEN 10
    ELSE IF RatioGt(100 * a, b, 5) THEN 5
    ELSE 0

\* the company whose latest revenue and totalEquity are exchanged, which
\* exchanges its profitMargin and returnOnEquity values
SwappedCallee ==
    [Callee EXCEPT !.years[Len(Callee.years)] =
        [@ EXCEPT !.revenue = CalleeLatest.totalEquity,
                  !.totalEquity = CalleeLatest.revenue]]

\* C3 as stated: the ROE contribution follows the profitMargin scheme, and
\* exchanging the margin and ROE values keeps the profitability total
C3_Original ==
    HealthCalled =>
        /\ ret.locals.roe = MarginScheme(CalleeLatest.netProfit, CalleeLatest.totalEquity)
        /\ ret.locals.margin + ret.locals.roe =
             healthState(SwappedCallee).margin + healthState(SwappedCallee).roe

\* C3 (amended): the profitMargin contribution is >20: 20, >10: 15, >5: 10,
\* >0: 5, else 0, and the returnOnEquity contribution uses its own thresholds,
\* >20: 20, >15: 15, >10: 10, >5: 5, else 0.
C3_ProfitabilityBuckets ==
    HealthCalled =>
        /\ ret.locals.margin = MarginScheme(CalleeLatest.netProfit, CalleeLatest.revenue)
        /\ ret.locals.roe = RoeScheme(CalleeLatest.netProfit, CalleeLatest.totalEquity)

\* C3 witness: a company with non-zero revenue and equity whose profitability
\* total changes when its margin and ROE values are exchanged (margin 10 and
\* ROE 20 total 10 + 15, ROE 10 and margin 20 total 5 + 15)
C3_Witness ==
    /\ HealthCalled
    /\ CalleeLatest.revenue # 0
    /\ CalleeLatest.totalEquity # 0
    /\ ret.locals.margin + ret.locals.roe #
         healthState(SwappedCallee).margin + healthState(SwappedCallee).roe

\* the growth bucket scheme with strict thresholds, on (curr - prev) / prev * 100
GrowthScheme(prev, curr) ==
    IF RatioGt(100 * (curr - prev), prev, 20) THEN 15
    ELSE IF RatioGt(100 * (curr - prev), prev, 10) THEN 10
    ELSE IF RatioGt(100 * (curr - prev), prev, 5) THEN 5
    ELSE 0

\* C4: the growth contribution buckets the growth rate of the last two
\* periods with strict thresholds (>20: 15, >10: 10, >5: 5), for revenue and
\* profit separately, and is 0 with fewer than 2 periods; revenue [1000,1200]
\* scores 10 (growth exactly 20), netProfit [100,150] scores 15, together 25.
C4_GrowthContribution ==
    HealthCalled =>
        LET n == Len(Callee.years)
        IN  /\ n < 2 => ret.locals.growth = 0
            /\ n >= 2 =>
                 /\ ret.locals.revenueGrowth =
                      GrowthScheme(Callee.years[n - 1].revenue, Callee.years[n].revenue)
                 /\ ret.locals.profitGrowth =
                      GrowthScheme(Callee.years[n - 1].netProfit, Callee.years[n].netProfit)
                 /\ ret.locals.growth = ret.locals.revenueGrowth + ret.locals.profitGrowth
            /\ ScenarioTwo =>
                 /\ ret.locals.revenueGrowth = 10
                 /\ ret.locals.profitGrowth = 15
                 /\ ret.locals.growth = 25

\* C4 witness: calculateHealthScore has been applied to the scenario company
C4_Witness == HealthCalled /\ ScenarioTwo /\ ret.locals.growth = 25

\* r is the finite number a / b, or 0 when b = 0
IsSafeRatio(r, a, b) ==
    /\ r.d # 0
    /\ b = 0 => r = Num(0)
    /\ b # 0 => r.n * b = a * r.d

\* C5: every ratio of calculateMetrics is a finite number, equal to
\* numerator / denominator when the denominator is not zero and to 0 when it
\* is (safeDivide(a, 0) = 0, safeDivide(a, b) = a / b).
C5_SafeRatios ==
    MetricsCalled =>
        LET y == CalleeLatest
            m == ret.value
        IN  /\ IsSafeRatio(m.profitMargin, 100 * y.netProfit, y.revenue)
            /\ IsSafeRatio(m.roe, 100 * y.netProfit, y.totalEquity)
            /\ IsSafeRatio(m.debtToEquity, y.totalDebt, y.totalEquity)
            /\ IsSafeRatio(m.priceToEquity, y.marketCap, y.totalEquity)
            /\ IsSafeRatio(m.priceToSales, y.marketCap, y.revenue)

\* C5 witness: metrics of a record whose revenue and totalEquity are both 0
\* while its numerators are not
C5_Witness ==
    /\ MetricsCalled
    /\ ret.value.revenue = 0
    /\ ret.value.totalEquity = 0
    /\ ret.value.netProfit # 0
    /\ ret.value.profitMargin = Num(0)
    /\ ret.value.debtToEquity = Num(0)

AnalyzeAllCalled == ret.op = "analyzeAll"

\* the order of the risk bands
BandRank(band) == CASE band = "low" -> 0 [] band = "medium" -> 1 [] band = "high" -> 2

\* C7: of two analysed companies with equal profitMargin and equal
\* priceToEquity, the one with the larger debtToEquity never gets a lower
\* risk band (low < medium < high).
C7_RiskMonotoneInDebt ==
    AnalyzeAllCalled =>
        \A i, j \in DOMAIN ret.value :
            ( /\ ret.value[i].metrics.profitMargin = ret.value[j].metrics.profitMargin
              /\ ret.value[i].metrics.priceToEquity = ret.value[j].metrics.priceToEquity
              /\ RLe(ret.value[i].metrics.debtToEquity, ret.value[j].metrics.debtToEquity) )
            => BandRank(ret.value[i].risk) <= BandRank(ret.value[j].risk)

\* C7 witness: two companies equal in margin and P/E whose debtToEquity lies
\* on the two sides of the threshold 2, the band rising from low to medium
C7_Witness ==
    /\ AnalyzeAllCalled
    /\ \E i, j \in DOMAIN ret.value :
         /\ ret.value[i].metrics.profitMargin = ret.value[j].metrics.profitMargin
         /\ ret.value[i].metrics.priceToEquity = ret.value[j].metrics.priceToEquity
         /\ RGt(ret.value[i].metrics.debtToEquity, Num(1))
         /\ RLt(ret.value[i].metrics.debtToEquity, Num(2))
         /\ RGt(ret.value[j].metrics.debtToEquity, Num(2))
         /\ ret.value[i].risk = "low"
         /\ ret.value[j].risk = "medium"

\* the risk score as the sum of the three buckets, on the raw record
RiskSum(y) ==
    (IF RatioGt(y.totalDebt, y.totalEquity, 3) THEN 45
     ELSE IF RatioGt(y.totalDebt, y.totalEquity, 2) THEN 30
     ELSE IF RatioGt(y.totalDebt, y.totalEquity, 1) THEN 15 ELSE 0)
    + (IF RatioLt(100 * y.netProfit, y.revenue, 0) THEN 40
       ELSE IF RatioLt(100 * y.netProfit, y.revenue, 5) THEN 25
       ELSE IF RatioLt(100 * y.netProfit, y.revenue, 10) THEN 10 ELSE 0)
    + (IF RatioGt(y.marketCap, y.totalEquity, 12) THEN 20
       ELSE IF RatioGt(y.marketCap, y.totalEquity, 7) THEN 10 ELSE 0)

\* C8: calculateRisk returns one of 'low', 'medium', 'high'; its score is the
\* sum of the leverage, profitability and valuation buckets, and the band is
\* 'high' iff the sum >= 65, 'medium' iff 35 <= sum < 65, 'low' iff sum < 35.
C8_RiskBands ==
    RiskCalled =>
        /\ ret.value \in {"low", "medium", "high"}
        /\ ret.locals.riskScore = RiskSum(CalleeLatest)
        /\ ret.value = "high" <=> RiskSum(CalleeLatest) >= 65
        /\ ret.value = "medium" <=> (RiskSum(CalleeLatest) >= 35 /\ RiskSum(CalleeLatest) < 65)
        /\ ret.value = "low" <=> RiskSum(CalleeLatest) < 35

\* C8 witness: a risk score of exactly 65, the lowest that is 'high'
C8_Witness == RiskCalled /\ ret.locals.riskScore = 65 /\ ret.value = "high"

UndervalCalled == ret.op = "calculateUndervaluationScore"
NormalizeCalled == ret.op = "normalize"

InUnitInterval(x) == x.d # 0 /\ RGe(x, Num(0)) /\ RLe(x, Num(1))

\* C6: normalize(v, min, max) is exactly 0.5 when min = max, for any v, and
\* (v - min) / (max - min) otherwise; inside calculateUndervaluationScore of
\* a member of the population the three normalized features lie in [0,1].
C6_Normalize ==
    /\ NormalizeCalled =>
         LET v  == ret.args[1]
             lo == ret.args[2]
             hi == ret.args[3]
         IN  /\ lo = hi => ret.value = Rat(1, 2)
             /\ lo # hi => /\ ret.value.d # 0
                           /\ RMul(ret.value, RSub(hi, lo)) = RSub(v, lo)
    /\ UndervalCalled =>
         /\ InUnitInterval(ret.locals.normPE)
         /\ InUnitInterval(ret.locals.normMargin)
         /\ InUnitInterval(ret.locals.normDebt)
         /\ ret.locals.peMin = ret.locals.peMax => ret.locals.normPE = Rat(1, 2)
         /\ ret.locals.marginMin = ret.locals.marginMax => ret.locals.normMargin = Rat(1, 2)
         /\ ret.locals.debtMin = ret.locals.debtMax => ret.locals.normDebt = Rat(1, 2)

\* C6 witness: a population whose priceToEquity values are all equal (feature
\* 0.5) while its margins differ and the company holds the largest margin
C6_Witness ==
    /\ UndervalCalled
    /\ ret.locals.peMin = ret.locals.peMax
    /\ ret.locals.normPE = Rat(1, 2)
    /\ ret.locals.marginMin # ret.locals.marginMax
    /\ ret.locals.normMargin = Num(1)

\* a / b, or 0 when b = 0
SafeRatio(a, b) == IF b = 0 THEN Num(0) ELSE Rat(a, b)

LatestOf(c) == c.years[Len(c.years)]
PEOf(c) == SafeRatio(LatestOf(c).marketCap, LatestOf(c).totalEquity)
MarginOf(c) == SafeRatio(100 * LatestOf(c).netProfit, LatestOf(c).revenue)
DebtOf(c) == SafeRatio(LatestOf(c).totalDebt, LatestOf(c).totalEquity)
RoeOf(c) == SafeRatio(100 * LatestOf(c).netProfit, LatestOf(c).totalEquity)

\* v normalized over the smallest and largest value of the non-empty set S
NormOver(v, S) ==
    LET lo == CHOOSE x \in S : \A y \in S : RLe(x, y)
        hi == CHOOSE x \in S : \A y \in S : RGe(x, y)
    IN  IF lo = hi THEN Rat(1, 2) ELSE RDiv(RSub(v, lo), RSub(hi, lo))

\* clamp(x, 0, 1)
Clamp01(x) == IF RLt(x, Num(0)) THEN Num(0) ELSE IF RGt(x, Num(1)) THEN Num(1) ELSE x

\* 100 * (0.35 (1 - normPE) + 0.30 normMargin + 0.20 (1 - normDebt)
\*        + 0.15 clamp(roe / 30, 0, 1)), the norms over the population pop
ExpectedUnderval(c, pop) ==
    LET nPE == NormOver(PEOf(c), {PEOf(pop[i]) : i \in DOMAIN pop})
        nM  == NormOver(MarginOf(c), {MarginOf(pop[i]) : i \in DOMAIN pop})
        nD  == NormOver(DebtOf(c), {DebtOf(pop[i]) : i \in DOMAIN pop})
        r   == Clamp01(RDiv(RoeOf(c), Num(30)))
    IN  RAdd(RAdd(RMul(Num(35), RSub(Num(1), nPE)), RMul(Num(30), nM)),
             RAdd(RMul(Num(20), RSub(Num(1), nD)), RMul(Num(15), r)))

\* C9: calculateUndervaluationScore equals 100 * (0.35 (1 - normPE)
\* + 0.30 normMargin + 0.20 (1 - normDebt) + 0.15 clamp(roe / 30, 0, 1)), the
\* norms taken over the whole population, and lies in [0,100].
C9_UndervaluationFormula ==
    UndervalCalled =>
        /\ ret.value = ExpectedUnderval(Callee, companies)
        /\ ret.value.d # 0
        /\ RGe(ret.value, Num(0))
        /\ RLe(ret.value, Num(100))

\* C9 witness: a company strictly inside the population's priceToEquity range
\* with a score strictly between 0 and 100
C9_Witness ==
    /\ UndervalCalled
    /\ Len(companies) = 3
    /\ RGt(ret.locals.normPE, Num(0))
    /\ RLt(ret.locals.normPE, Num(1))
    /\ RGt(ret.value, Num(0))
    /\ RLt(ret.value, Num(100))

\* the permutations of 1..n
Permutations(n) ==
    { q \in [1..n -> 1..n] : \A i, j \in 1..n : q[i] = q[j] => i = j }

\* the sequence s without its k-th element
RemoveAt(s, k) == [i \in 1..(Len(s) - 1) |-> IF i < k THEN s[i] ELSE s[i + 1]]

\* C10: the undervaluation score of a company is the same for every
\* permutation of the population.
C10_PermutationInvariant ==
    UndervalCalled =>
        \A q \in Permutations(Len(companies)) :
            calculateUndervaluationScore(
                Callee, [i \in 1..Len(companies) |-> companies[q[i]]]) = ret.value

\* C10 witness: a population of distinct companies in which dropping another
\* member changes the company's score (two populations of different
\* membership, different scores for the same company)
C10_Witness ==
    /\ UndervalCalled
    /\ Len(companies) >= 2
    /\ \E k \in DOMAIN companies :
         /\ k # ret.arg
         /\ companies[k].years # Callee.years
         /\ calculateUndervaluationScore(Callee, RemoveAt(companies, k)) # ret.value

\* the priceToEquity values of the population, in its order
PopulationPE == [i \in 1..Len(companies) |-> PEOf(companies[i])]

\* the population of the concrete scenario: priceToEquity 2, 5 and 10
ScenarioPE == PopulationPE = <<Num(2), Num(5), Num(10)>>

\* C11: in a population whose priceToEquity values are not all equal the
\* company with the minimum priceToEquity gets the valuationScore feature 1
\* and the company with the maximum gets 0; for the priceToEquity values
\* [2,5,10], peMin = 2, peMax = 10, the company with 2 gets 1 and the company
\* with 10 gets 0.
C11_ValuationExtremes ==
    UndervalCalled =>
        LET pes == Range(PopulationPE)
        IN  /\ (Cardinality(pes) > 1 /\ \A x \in pes : RLe(PEOf(Callee), x))
                 => ret.locals.features.valuationScore = Num(1)
            /\ (Cardinality(pes) > 1 /\ \A x \in pes : RGe(PEOf(Callee), x))
                 => ret.locals.features.valuationScore = Num(0)
            /\ ScenarioPE =>
                 /\ ret.locals.peMin = Num(2)
                 /\ ret.locals.peMax = Num(10)
                 /\ PEOf(Callee) = Num(2) =>
                      (ret.locals.normPE = Num(0) /\ ret.locals.features.valuationScore = Num(1))
                 /\ PEOf(Callee) = Num(10) => ret.locals.features.valuationScore = Num(0)

\* C11 witness: the score of the priceToEquity-2 company of the scenario
C11_Witness ==
    /\ UndervalCalled
    /\ ScenarioPE
    /\ PEOf(Callee) = Num(2)
    /\ ret.locals.features.valuationScore = Num(1)

MomentumCalled == ret.op = "calculateMomentumScore"
PredictRevenueCalled == ret.op = "predict2026Revenue"
PredictProfitCalled == ret.op = "predict2026Profit"

RevenueSeries(c) == [i \in 1..Len(c.years) |-> c.years[i].revenue]
ProfitSeries(c) == [i \in 1..Len(c.years) |-> c.years[i].netProfit]

\* the number of consecutive pairs of the integer series s that increase
Increases(s) == Cardinality({i \in 2..Len(s) : s[i] > s[i - 1]})

\* the growth rate from prev to curr in percent, 0 when prev is 0
RateOf(prev, curr) == IF prev = 0 THEN Num(0) ELSE Rat(100 * (curr - prev), prev)

\* the number of consecutive pairs of growth rates of s that increase
RateIncreases(s) ==
    Cardinality({i \in 2..(Len(s) - 1) :
                    RGt(RateOf(s[i], s[i + 1]), RateOf(s[i - 1], s[i]))})

\* 40 (revenue increases)/(n-1) + 40 (profit increases)/(n-1)
\*   + 20 (growth-rate increases)/(n-2), for n >= 3
Composite(c) ==
    LET n == Len(c.years)
    IN  RAdd(RAdd(Rat(40 * Increases(RevenueSeries(c)), n - 1),
                  Rat(40 * Increases(ProfitSeries(c)), n - 1)),
             Rat(20 * RateIncreases(RevenueSeries(c)), n - 2))

\* C12 as stated: calculateMomentumScore returns 50 exactly when the company
\* has fewer than 3 fiscal periods
C12_Original ==
    MomentumCalled => (ret.value = Num(50) <=> Len(Callee.years) < 3)

\* C12 (amended): calculateMomentumScore returns 50 for every company with 1
\* or 2 periods; for a company with 3 or more periods it returns 50 only when
\* the composite is exactly 1/2, which needs at least 42 periods (no revenue
\* or profit increase and one growth-rate increase among 40 pairs).
C12_NeutralMomentum ==
    MomentumCalled =>
        /\ Len(Callee.years) < 3 => ret.value = Num(50)
        /\ (Len(Callee.years) >= 3 /\ ret.value = Num(50)) =>
             /\ Len(Callee.years) >= 42
             /\ Composite(Callee) = Rat(1, 2)

\* C12 witness: a company of 42 periods whose revenue falls once and then
\* stays, with a constant profit, gets the score 50
C12_Witness ==
    /\ MomentumCalled
    /\ Len(Callee.years) >= 3
    /\ Increases(RevenueSeries(Callee)) = 0
    /\ Increases(ProfitSeries(Callee)) = 0
    /\ RateIncreases(RevenueSeries(Callee)) = 1
    /\ ret.value = Num(50)

\* C13: for n >= 3 periods calculateMomentumScore returns 100 whenever the
\* composite is >= 1 and composite * 100 otherwise, and the result lies in
\* [0,100].
C13_MomentumSaturates ==
    (MomentumCalled /\ Len(Callee.years) >= 3) =>
        /\ ret.locals.score = Composite(Callee)
        /\ RGe(Composite(Callee), Num(1)) => ret.value = Num(100)
        /\ RLt(Composite(Callee), Num(1)) => ret.value = RMul(Composite(Callee), Num(100))
        /\ ret.value.d # 0
        /\ RGe(ret.value, Num(0))
        /\ RLe(ret.value, Num(100))

\* C13 witness: a composite strictly between 0 and 1, reported times 100
C13_Witness ==
    /\ MomentumCalled
    /\ Len(Callee.years) >= 3
    /\ RGt(Composite(Callee), Num(0))
    /\ RLt(Composite(Callee), Num(1))
    /\ RGt(ret.value, Num(0))
    /\ RLt(ret.value, Num(100))
    /\ ret.value # Num(50)

IsNull(v) == DOMAIN v = {"null"}

\* C14: predict2026Revenue and predict2026Profit return null exactly when the
\* company has fewer than 3 periods; with 3 or more both return a finite
\* number and predict2026Revenue is >= 0.
C14_PredictionNull ==
    /\ PredictRevenueCalled =>
         /\ IsNull(ret.value) <=> Len(Callee.years) < 3
         /\ Len(Callee.years) >= 3 => (ret.value.d # 0 /\ RGe(ret.value, Num(0)))
    /\ PredictProfitCalled =>
         /\ IsNull(ret.value) <=> Len(Callee.years) < 3
         /\ Len(Callee.years) >= 3 => ret.value.d # 0

\* C14 witness: a predicted profit that is negative
C14_Witness ==
    /\ PredictProfitCalled
    /\ Len(Callee.years) >= 3
    /\ ~IsNull(ret.value)
    /\ RLt(ret.value, Num(0))

RECURSIVE ResidualSum(_, _, _, _, _)
\* the sum over the first k points (i-1, s[i]) of w(i) * (s[i] - slope (i-1) - c),
\* with w(i) = i - 1 when weighted and 1 otherwise
ResidualSum(s, slope, c, weighted, k) ==
    IF k = 0 THEN Num(0)
    ELSE RAdd(ResidualSum(s, slope, c, weighted, k - 1),
              RMul(Num(IF weighted THEN k - 1 ELSE 1),
                   RSub(RSub(Num(s[k]), RMul(slope, Num(k - 1))), c)))

\* the series is y_i = a + b i for some a and b
IsLinear(s) == \A i \in 2..Len(s) : s[i] - s[i - 1] = s[2] - s[1]

\* the line through a linear series, one period beyond its last point
Extrapolated(s) == s[1] + (s[2] - s[1]) * Len(s)

PredictCalled == PredictRevenueCalled \/ PredictProfitCalled
PredictedSeries ==
    IF PredictRevenueCalled THEN RevenueSeries(Callee) ELSE ProfitSeries(Callee)

\* C15: for n >= 3 the forecast is the least-squares line over (0,y0) ..
\* (n-1,y(n-1)) evaluated at x = n: slope and intercept satisfy the two normal
\* equations, the denominator n * sumX2 - sumX^2 = n^2 (n^2 - 1) / 12 is not
\* zero, and for a linear series y_i = a + b i predict2026Profit returns
\* a + b n and predict2026Revenue returns max(0, a + b n).
C15_LeastSquares ==
    (PredictCalled /\ Len(Callee.years) >= 3) =>
        LET s == PredictedSeries
            n == Len(s)
            fitted == RAdd(RMul(ret.locals.slope, Num(n)), ret.locals.intercept)
        IN  /\ ret.locals.denominator # 0
            /\ 12 * ret.locals.denominator = n * n * (n * n - 1)
            /\ ResidualSum(s, ret.locals.slope, ret.locals.intercept, FALSE, n) = Num(0)
            /\ ResidualSum(s, ret.locals.slope, ret.locals.intercept, TRUE, n) = Num(0)
            /\ PredictProfitCalled => ret.value = fitted
            /\ PredictRevenueCalled =>
                 ret.value = (IF RLt(fitted, Num(0)) THEN Num(0) ELSE fitted)
            /\ IsLinear(s) =>
                 /\ PredictProfitCalled => ret.value = Num(Extrapolated(s))
                 /\ PredictRevenueCalled =>
                      ret.value = Num(IF Extrapolated(s) < 0 THEN 0 ELSE Extrapolated(s))

\* C15 witness: a falling linear revenue series whose line is negative one
\* period ahead, predicted as 0
C15_Witness ==
    /\ PredictRevenueCalled
    /\ Len(Callee.years) >= 3
    /\ IsLinear(RevenueSeries(Callee))
    /\ Extrapolated(RevenueSeries(Callee)) < 0
    /\ ret.value = Num(0)

ClassifyCalled == ret.op = "classifyCompany"
InsightsCalled == ret.op = "generateInsights"
AnalyzeAllWithMLCalled == ret.op = "analyzeAllWithML"
SectorPredictionsCalled == ret.op = "getSectorPredictions"

\* the conditions of the four rules, on the scores classifyCompany computed
RuleOne == RGt(ret.locals.undervalScore, Num(70)) /\ RGt(ret.locals.healthScore, Num(60))
RuleTwo ==
    /\ RLt(ret.locals.healthScore, Num(40))
    /\ \/ RatioGt(CalleeLatest.totalDebt, CalleeLatest.totalEquity, 3)
       \/ RatioLt(100 * CalleeLatest.netProfit, CalleeLatest.revenue, 0)
RuleThree == RGt(ret.locals.momentum, Num(75)) /\ RGt(ret.locals.healthScore, Num(50))
RuleFour ==
    /\ ret.locals.risk = "low"
    /\ CalleeLatest.marketCap > 50000
    /\ RGt(ret.locals.healthScore, Num(50))

\* C16: classifyCompany returns the outcome of the first matching rule of the
\* ordered list undervalued/0.90, overvalued/0.85, growth/0.80, stable/0.85,
\* neutral/0.50, on the company's own scores; a company satisfying both rule
\* 1 and rule 3 is classified 'undervalued'.
C16_FirstRuleWins ==
    ClassifyCalled =>
        /\ ret.locals.healthScore = calculateHealthScore(Callee)
        /\ ret.locals.undervalScore = calculateUndervaluationScore(Callee, companies)
        /\ ret.locals.momentum = calculateMomentumScore(Callee)
        /\ ret.locals.risk = calculateRisk(Callee)
        /\ RuleOne => ret.value = [category |-> "undervalued", confidence |-> Rat(90, 100)]
        /\ (~RuleOne /\ RuleTwo) =>
             ret.value = [category |-> "overvalued", confidence |-> Rat(85, 100)]
        /\ (~RuleOne /\ ~RuleTwo /\ RuleThree) =>
             ret.value = [category |-> "growth", confidence |-> Rat(80, 100)]
        /\ (~RuleOne /\ ~RuleTwo /\ ~RuleThree /\ RuleFour) =>
             ret.value = [category |-> "stable", confidence |-> Rat(85, 100)]
        /\ (~RuleOne /\ ~RuleTwo /\ ~RuleThree /\ ~RuleFour) =>
             ret.value = [category |-> "neutral", confidence |-> Rat(50, 100)]
        /\ (RuleOne /\ RuleThree) => ret.value.category = "undervalued"

\* C16 witness: a company that satisfies rule 1 and rule 3 at once
C16_Witness ==
    /\ ClassifyCalled
    /\ RuleOne
    /\ RuleThree
    /\ ret.value.category = "undervalued"

\* the category an insight text belongs to: 1 health, 2 valuation,
\* 3 momentum, 4 leverage, 5 profitability
CategoryOf(text) ==
    CASE text \in {"Strong financial health with solid fundamentals",
                   "Weak financial health - caution advised"} -> 1
      [] text \in {"Potentially undervalued with good upside",
                   "High valuation - may be overpriced"} -> 2
      [] text \in {"Strong positive momentum in growth",
                   "Declining momentum - growth slowing"} -> 3
      [] text \in {"High debt levels pose risk",
                   "Low debt provides financial flexibility"} -> 4
      [] text \in {"Excellent profit margins",
                   "Company is currently unprofitable"} -> 5
      [] OTHER -> 0

\* the insight texts of a result, as a set
InsightTexts(v) == {v.insights[k].text : k \in DOMAIN v.insights}

\* exactly the text hi when high holds, exactly the text lo when low holds
\* and high does not, neither otherwise
Branches(v, high, hi, low, lo) ==
    /\ hi \in InsightTexts(v) <=> high
    /\ lo \in InsightTexts(v) <=> (low /\ ~high)

\* C17: generateInsights returns at most 5 insights, at most one per
\* category, in the order health, valuation, momentum, leverage,
\* profitability; in each category the high branch excludes the low one and a
\* category whose thresholds are not met contributes nothing.
C17_InsightList ==
    InsightsCalled =>
        LET v == ret.value
            y == CalleeLatest
        IN  /\ Len(v.insights) <= 5
            /\ \A k \in DOMAIN v.insights : CategoryOf(v.insights[k].text) \in 1..5
            /\ \A j, k \in DOMAIN v.insights :
                 j < k => CategoryOf(v.insights[j].text) < CategoryOf(v.insights[k].text)
            /\ Branches(v, RGt(v.healthScore, Num(70)),
                           "Strong financial health with solid fundamentals",
                           RLt(v.healthScore, Num(40)),
                           "Weak financial health - caution advised")
            /\ Branches(v, RGt(v.undervalScore, Num(70)),
                           "Potentially undervalued with good upside",
                           RatioGt(y.marketCap, y.totalEquity, 8),
                           "High valuation - may be overpriced")
            /\ Branches(v, RGt(v.momentum, Num(75)),
                           "Strong positive momentum in growth",
                           RLt(v.momentum, Num(30)),
                           "Declining momentum - growth slowing")
            /\ Branches(v, RatioGt(y.totalDebt, y.totalEquity, 3),
                           "High debt levels pose risk",
                           RatioLt(2 * y.totalDebt, y.totalEquity, 1),
                           "Low debt provides financial flexibility")
            /\ Branches(v, RatioGt(100 * y.netProfit, y.revenue, 20),
                           "Excellent profit margins",
                           RatioLt(100 * y.netProfit, y.revenue, 0),
                           "Company is currently unprofitable")

\* C17 witness: an undervalued company whose priceToEquity exceeds 8 gets the
\* one valuation insight of the high branch, in a list that skips a category
C17_Witness ==
    /\ InsightsCalled
    /\ RGt(ret.value.undervalScore, Num(70))
    /\ RatioGt(CalleeLatest.marketCap, CalleeLatest.totalEquity, 8)
    /\ "Potentially undervalued with good upside" \in InsightTexts(ret.value)
    /\ Len(ret.value.insights) < 5

\* the members of a sector, by their index in the population
SectorMembers(sector) == {i \in DOMAIN companies : companies[i].sector = sector}

RECURSIVE SumOver(_, _)
\* the sum of f[i] over the finite set S of indices
SumOver(f, S) ==
    IF S = {} THEN Num(0)
    ELSE LET i == CHOOSE x \in S : TRUE IN RAdd(f[i], SumOver(f, S \ {i}))

MomentumOfAll == [i \in DOMAIN companies |-> calculateMomentumScore(companies[i])]
HealthOfAll == [i \in DOMAIN companies |-> calculateHealthScore(companies[i])]

\* C18: getSectorPredictions returns exactly one summary per distinct sector,
\* with momentum and health the means over the sector's companies and
\* score = 0.6 momentum + 0.4 health, sorted in non-increasing order of score.
C18_SectorPredictions ==
    SectorPredictionsCalled =>
        LET v == ret.value
        IN  /\ {v[k].sector : k \in DOMAIN v} = {companies[i].sector : i \in DOMAIN companies}
            /\ \A j, k \in DOMAIN v : v[j].sector = v[k].sector => j = k
            /\ \A k \in DOMAIN v :
                 LET members == SectorMembers(v[k].sector)
                 IN  /\ RMul(v[k].momentum, Num(Cardinality(members))) =
                          SumOver(MomentumOfAll, members)
                     /\ RMul(v[k].health, Num(Cardinality(members))) =
                          SumOver(HealthOfAll, members)
                     /\ RMul(v[k].score, Num(10)) =
                          RAdd(RMul(v[k].momentum, Num(6)), RMul(v[k].health, Num(4)))
            /\ \A j, k \in DOMAIN v : j < k => RGe(v[j].score, v[k].score)

\* C18 witness: three companies in two sectors, the sector that occurs first
\* in the population ranked last
C18_Witness ==
    /\ SectorPredictionsCalled
    /\ Len(companies) = 3
    /\ Len(ret.value) = 2
    /\ ret.value[2].sector = companies[1].sector
    /\ Cardinality(SectorMembers(ret.value[1].sector)) = 2
    /\ RGt(ret.value[1].score, ret.value[2].score)
    /\ ret.value[1].momentum # ret.value[1].health

\* the entry carries the company's own fields unchanged
SameCompanyFields(entry, c) ==
    /\ entry.company = c.company
    /\ entry.ticker = c.ticker
    /\ entry.sector = c.sector
    /\ entry.years = c.years

C20_PopulationReadOnly == [][companies' = companies]_vars

\* every step keeps the companies of the population and their fiscal
\* records; only the order of the array can change
C20_MembersKept ==
    [][/\ Len(companies') = Len(companies)
       /\ Range(companies') = Range(companies)]_vars

\* a render of the analysis section has reordered the population, and the
\* entries of allAnalyzedData are no longer in the population's order
C20_Reordered ==
    /\ ret.op = "renderAnalysis"
    /\ Len(companies) = 2
    /\ app.allAnalyzedData[1].ticker = companies[2].ticker
    /\ app.allAnalyzedData[2].ticker = companies[1].ticker

\* a finite number
IsFinite(x) == DOMAIN x = {"n", "d"} /\ x.d # 0
\* a finite number of the range 0..100
IsScore(x) == IsFinite(x) /\ RGe(x, Num(0)) /\ RLe(x, Num(100))
\* null or a finite number
IsPrediction(x) == IsNull(x) \/ IsFinite(x)
\* one of the five classifications
IsClassification(x) ==
    /\ x.category \in {"undervalued", "overvalued", "growth", "stable", "neutral"}
    /\ IsFinite(x.confidence)

\* C21: for a company of at least one fiscal record, zeros among the record
\* values included, each of calculateMetrics, calculateHealthScore,
\* calculateRisk, calculateUndervaluationScore, calculateMomentumScore,
\* predict2026Revenue, predict2026Profit, classifyCompany and
\* generateInsights returns a defined value: ratios and scores are finite
\* numbers (never NaN), the risk is one of the three bands, a prediction is
\* null or a finite number.
C21_DefinedValues ==
    /\ MetricsCalled =>
         \A k \in {"profitMargin", "roe", "debtToEquity", "priceToEquity", "priceToSales"} :
            IsFinite(ret.value[k])
    /\ HealthCalled => IsScore(ret.value)
    /\ RiskCalled => ret.value \in {"low", "medium", "high"}
    /\ UndervalCalled => IsScore(ret.value)
    /\ MomentumCalled => IsScore(ret.value)
    /\ PredictRevenueCalled =>
         IsPrediction(ret.value) /\ (IsNull(ret.value) \/ RGe(ret.value, Num(0)))
    /\ PredictProfitCalled => IsPrediction(ret.value)
    /\ ClassifyCalled => IsClassification(ret.value)
    /\ InsightsCalled =>
         /\ IsScore(ret.value.healthScore)
         /\ IsScore(ret.value.undervalScore)
         /\ IsScore(ret.value.momentum)
         /\ IsClassification(ret.value.classification)
         /\ IsPrediction(ret.value.predicted2026Revenue)
         /\ IsPrediction(ret.value.predicted2026Profit)
         /\ \A k \in DOMAIN ret.value.insights :
              ret.value.insights[k].type \in {"positive", "negative", "warning"}

\* C21 witness: insights generated for a company whose three records are all
\* zero, next to a peer of non-zero ratios
C21_Witness ==
    /\ InsightsCalled
    /\ Len(companies) = 2
    /\ Len(Callee.years) = 3
    /\ \A i \in 1..3 : Callee.years[i].revenue = 0 /\ Callee.years[i].totalEquity = 0
    /\ companies[2].years[1].totalEquity # 0
    /\ ret.value.predicted2026Revenue = Num(0)
    /\ IsScore(ret.value.undervalScore)

ProcessDataCalled == ret.op = "processData"

\* the fiscal period a label names
PeriodOf(label) ==
    CASE label = <<"F", "Y", "2", "1">> -> 21
      [] label = <<"F", "Y", "2", "2">> -> 22
      [] label = <<"F", "Y", "2", "3">> -> 23

\* the rows of the parsed file that carry a ticker, by their index
TickerRows == {k \in DOMAIN ret.rawData : ret.rawData[k].Ticker # emptyCell}

\* every fiscal record of every company comes from a row with that ticker,
\* and every such row gave one record
FromTickerRows ==
    /\ \A i \in DOMAIN companies :
         Len(companies[i].years) =
            Cardinality({k \in TickerRows : ret.rawData[k].Ticker[1] = companies[i].ticker})
    /\ \A k \in TickerRows : \E i \in DOMAIN companies :
         /\ companies[i].ticker = ret.rawData[k].Ticker[1]
         /\ \E j \in DOMAIN companies[i].years :
              /\ companies[i].years[j].fy = ret.rawData[k].FY
              /\ companies[i].years[j].revenue = orZero(ret.rawData[k].Revenue_Cr)

\* C22 as stated: after processData every company has a non-empty years
\* sequence that is strictly increasing by fiscal period, no two companies
\* share a ticker, and rows without a ticker contribute to no company.
C22_LoaderInvariant ==
    ProcessDataCalled =>
        /\ \A i \in DOMAIN companies :
             /\ Len(companies[i].years) >= 1
             /\ \A j, k \in DOMAIN companies[i].years :
                  j < k => PeriodOf(companies[i].years[j].fy) < PeriodOf(companies[i].years[k].fy)
        /\ \A i, j \in DOMAIN companies : companies[i].ticker = companies[j].ticker => i = j
        /\ FromTickerRows

\* what processData does establish: non-empty years in non-decreasing order
\* of period, records of one period in the order of their rows, unique
\* tickers, and nothing from rows without a ticker
C22_SortedGroups ==
    ProcessDataCalled =>
        /\ \A i \in DOMAIN companies :
             /\ Len(companies[i].years) >= 1
             /\ \A j, k \in DOMAIN companies[i].years :
                  j < k => PeriodOf(companies[i].years[j].fy) <= PeriodOf(companies[i].years[k].fy)
        /\ \A i, j \in DOMAIN companies : companies[i].ticker = companies[j].ticker => i = j
        /\ FromTickerRows

\* two rows of one ticker and one period: the company holds both records,
\* in the order of the rows
C22_DuplicatePeriod ==
    /\ ProcessDataCalled
    /\ Len(ret.rawData) = 3
    /\ ret.rawData[1].Ticker = <<"A">> /\ ret.rawData[3].Ticker = <<"A">>
    /\ ret.rawData[1].FY = ret.rawData[3].FY
    /\ ret.rawData[1].Revenue_Cr = <<100>> /\ ret.rawData[3].Revenue_Cr = emptyCell
    /\ ret.rawData[2].Ticker = emptyCell
    /\ Len(companies) = 1
    /\ Len(companies[1].years) = 2
    /\ companies[1].years[1].fy = companies[1].years[2].fy
    /\ companies[1].years[1].revenue = 100 /\ companies[1].years[2].revenue = 0

TopByMarketCapCalled == ret.op = "getTopByMarketCap"
RenderAnalysisCalled == ret.op = "renderAnalysis"

\* the latest marketCap of a company
LatestMarketCap(c) == c.years[Len(c.years)].marketCap

\* C23 as stated: getTopByMarketCap(limit) returns the min(limit, population
\* size) companies with the largest latest-period marketCap, ordered by
\* descending latest marketCap.
C23_TopByMarketCap ==
    TopByMarketCapCalled =>
        LET v == ret.value
            tickers == {v[k].ticker : k \in DOMAIN v}
        IN  /\ Len(v) = IF ret.limit < Len(companies) THEN ret.limit ELSE Len(companies)
            /\ \A j, k \in DOMAIN v : j < k => LatestMarketCap(v[j]) >= LatestMarketCap(v[k])
            /\ \A k \in DOMAIN v : \A i \in DOMAIN companies :
                 companies[i].ticker \notin tickers =>
                    LatestMarketCap(v[k]) >= LatestMarketCap(companies[i])

\* getTopByMarketCap(1) on a population whose second company has the larger
\* latest marketCap returns the first company
C23_FirstNotLargest ==
    /\ TopByMarketCapCalled
    /\ ret.limit = 1
    /\ Len(companies) = 2
    /\ LatestMarketCap(companies[1]) < LatestMarketCap(companies[2])
    /\ Len(ret.value) = 1
    /\ ret.value[1].ticker = companies[1].ticker

\* C24 as stated: every entry returned by getRiskReturnData has a risk field
\* equal to calculateRisk of that company, one of 'low', 'medium', 'high',
\* so createRiskReturnChart never takes its 'invalid risk value' fallback.
C24_RiskOfEveryEntry ==
    RenderAnalysisCalled =>
        /\ \A i \in DOMAIN ret.riskReturnData :
             \E j \in DOMAIN companies :
                /\ companies[j].ticker = ret.riskReturnData[i].ticker
                /\ ret.riskReturnData[i].risk = calculateRisk(companies[j])
                /\ ret.riskReturnData[i].risk \in {"low", "medium", "high"}
        /\ \A i \in DOMAIN ret.riskReturnChart : ~ret.riskReturnChart[i].invalid

\* the analysis section rendered on a page that holds the chart's canvas:
\* every entry lacks its risk and every point is the fallback, whatever the
\* risk of the company
C24_FallbackTaken ==
    /\ RenderAnalysisCalled
    /\ Len(ret.riskReturnChart) = 2
    /\ \A i \in 1..2 :
         /\ ret.riskReturnData[i].risk = undefined
         /\ ret.riskReturnChart[i].invalid
         /\ ret.riskReturnChart[i].x = 2
    /\ \E j \in DOMAIN companies : calculateRisk(companies[j]) = "high"

\* the scores and the classification of the last classifyCompany or
\* generateInsights call
CalledScores ==
    IF ClassifyCalled
    THEN [ healthScore |-> ret.locals.healthScore, undervalScore |-> ret.locals.undervalScore,
           momentum |-> ret.locals.momentum, category |-> ret.value.category ]
    ELSE [ healthScore |-> ret.value.healthScore, undervalScore |-> ret.value.undervalScore,
           momentum |-> ret.value.momentum, category |-> ret.value.classification.category ]

\* C29: a company with fewer than 3 fiscal periods is never classified
\* 'growth' and never receives a momentum insight, its momentum score being
\* the neutral 50.
C29_ShortHistory ==
    ((ClassifyCalled \/ InsightsCalled) /\ Len(Callee.years) < 3) =>
        /\ CalledScores.momentum = Num(50)
        /\ CalledScores.category # "growth"
        /\ InsightsCalled =>
             \A k \in DOMAIN ret.value.insights : CategoryOf(ret.value.insights[k].text) # 3

\* C29 witness: a company of two periods, revenue and profit rising, health
\* above 50 and neither of the first two rules met: its insights name no
\* momentum and its category is not 'growth'
C29_Witness ==
    /\ InsightsCalled
    /\ Len(Callee.years) = 2
    /\ Callee.years[2].revenue > Callee.years[1].revenue
    /\ Callee.years[2].netProfit > Callee.years[1].netProfit
    /\ RGt(ret.value.healthScore, Num(50))
    /\ ~RGt(ret.value.undervalScore, Num(70))
    /\ ret.value.classification.category = "neutral"
    /\ Len(ret.value.insights) > 0

\* all companies of the population have the same priceToEquity, the same
\* profitMargin and the same debtToEquity
EqualRatios ==
    \A i, j \in DOMAIN companies :
        /\ calculateMetrics(companies[i]).priceToEquity =
             calculateMetrics(companies[j]).priceToEquity
        /\ calculateMetrics(companies[i]).profitMargin =
             calculateMetrics(companies[j]).profitMargin
        /\ calculateMetrics(companies[i]).debtToEquity =
             calculateMetrics(companies[j]).debtToEquity

CallsBefore(j) == {i \in 1..(j - 1) : app.log[i].kind = "call"}

\* the log ends with a call func has not answered yet
CallPending == app.log # <<>> /\ app.log[Len(app.log)].kind = "call"

\* every call of func answers the latest call of the returned function: it
\* carries that call's arguments, comes no earlier than Wait after it, and
\* is the only call of func since; so no call of func falls between two
\* calls less than Wait apart, nor while a newer call is pending
DebounceSafety ==
    \A j \in DOMAIN app.log :
        app.log[j].kind = "func" =>
            /\ CallsBefore(j) # {}
            /\ LET last == CHOOSE i \in CallsBefore(j) : \A k \in CallsBefore(j) : k <= i
               IN  /\ app.log[j].args = app.log[last].args
                   /\ app.log[j].at >= app.log[last].at + Wait
                   /\ \A k \in (last + 1)..(j - 1) : app.log[k].kind # "func"

\* C25: the function returned by Utils.debounce(func, wait), called several
\* times with less than wait between consecutive calls, invokes func exactly
\* once, once wait has passed after the last call and with the last call's
\* arguments; func is never invoked while a newer call is still pending.
C25_Debounce ==
    /\ []DebounceSafety
    /\ CallPending ~> ~CallPending

\* C25 witness: two calls of different arguments two ticks apart, answered
\* by one call of func, Wait after the second and with its arguments
C25_Witness ==
    /\ Len(app.log) = 3
    /\ app.log[1].kind = "call" /\ app.log[2].kind = "call" /\ app.log[3].kind = "func"
    /\ app.log[2].at - app.log[1].at = Wait - 1
    /\ app.log[1].args # app.log[2].args
    /\ app.log[3].args = app.log[2].args
    /\ app.log[3].at = app.log[2].at + Wait
    /\ app.debounced.timers = {}

\* the operations that are handlers of the user's events
HandlerOps ==
    {"switchSection", "categoryTab", "sectorFilter", "riskFilter", "searchInput", "search",
     "showCompanyDetails", "closeModal"}

\* init has constructed both analysers and analysed the loaded population
Analysed ==
    /\ app.load = "resolved"
    /\ app.analyzer = newFinancialAnalyzer
    /\ app.mlEngine = newMLEngine
    /\ Len(app.allAnalyzedData) = Len(companies)
    /\ {app.allAnalyzedData[k].ticker : k \in DOMAIN app.allAnalyzedData} =
          {companies[k].ticker : k \in DOMAIN companies}

\* C26: no UI event handler (navigation, category tab, sector/risk filter,
\* search, company card click) runs before App.init has set analyzer,
\* mlEngine and allAnalyzedData: handlers are registered only after the CSV
\* load resolved and the analysis ran, and when the load fails no handler
\* is registered at all.
C26_HandlersAfterInit ==
    /\ (app.listeners # {} \/ app.search.timers # {} \/ ret.op \in HandlerOps
          \/ app.topCompanies # <<>> \/ app.stocksGrid # <<>>) => Analysed
    /\ app.load = "rejected" =>
          app.listeners = {} /\ app.topCompanies = <<>> /\ app.stocksGrid = <<>>

\* C26 witness: a card click after an init whose setupEventListeners threw
\* on the missing modal: the handlers before it are registered, and the
\* analysis had run
C26_Witness ==
    /\ ret.op = "showCompanyDetails" /\ ret.found
    /\ ~app.page.companyModal
    /\ app.listeners # {}
    /\ app.notifications = <<"error">>
    /\ Len(app.allAnalyzedData) = 2

\* a step of init after the load fails: the load rejected, the page lacks
\* the modal or the dashboard's elements, or the file held no company
InitFails ==
    \/ app.load = "rejected"
    \/ ~app.page.companyModal
    \/ ~app.page.dashboard
    \/ companies = <<>>

\* hideLoading has been called once when init is done and not before, and
\* init's one notification is the error one exactly when a step failed
HiddenOnce ==
    /\ app.loadingHidden = IF app.pc = "done" THEN 1 ELSE 0
    /\ app.notifications = IF app.pc # "done" THEN <<>>
                           ELSE IF InitFails THEN <<"error">> ELSE <<"success">>

\* C27: App.init eventually hides the loading screen on every path: once
\* the CSV load resolves or rejects, hideLoading is called exactly once,
\* and an error notification is shown if and only if the load or a later
\* initialization step failed.
C27_LoadingHidden ==
    /\ []HiddenOnce
    /\ (app.pc = "continue") ~> (app.pc = "done" /\ app.loadingHidden = 1)

\* C27 witness: the load resolved with two companies, renderDashboard threw
\* on the page's missing elements after the handlers were registered, and
\* the loading screen is hidden behind the error notification
C27_Witness ==
    /\ app.pc = "done" /\ app.load = "resolved"
    /\ Len(companies) = 2
    /\ app.page.companyModal /\ ~app.page.dashboard
    /\ "companyModal" \in app.listeners
    /\ app.loadingHidden = 1
    /\ app.notifications = <<"error">>

\* the text q occurs in the text s
Occurs(q, s) ==
    \E k \in 0..(Len(s) - Len(q)) : \A j \in 1..Len(q) : s[k + j] = q[j]

\* the entry c of allAnalyzedData satisfies the filters that are active
Shown(c) ==
    /\ app.currentCategory = "all" \/ c.ml.classification.category = app.currentCategory
    /\ app.currentSector = "all" \/ c.sector = app.currentSector
    /\ app.currentRisk = "all" \/ calculateRisk(c) = app.currentRisk
    /\ \/ app.searchQuery = <<>>
       \/ \E field \in {c.company, c.ticker, c.sector} :
             Occurs(app.searchQuery, toLowerCase(chars(field)))

\* C28: after any sequence of category-tab, sector-filter, risk-filter and
\* search events, the companies shown by renderStocks are exactly the
\* entries of allAnalyzedData that satisfy all currently active filters
\* (category, sector, risk, search), in allAnalyzedData order; the result
\* depends only on the current filter values, not on the order in which
\* they were set.
C28_ShownCompanies ==
    app.stocksRendered =>
        [k \in DOMAIN app.stocksGrid |-> app.stocksGrid[k].ticker] =
            LET shown == SelectSeq(app.allAnalyzedData, Shown)
            IN  [k \in DOMAIN shown |-> shown[k].ticker]

\* C28 witness: two loaded companies, a category, a risk and a search
\* filter active after a search event, and the grid showing the second
\* company only
C28_Witness ==
    /\ ret.op = "search"
    /\ Len(app.allAnalyzedData) = 2
    /\ app.currentCategory # "all" /\ app.currentRisk # "all" /\ app.searchQuery # <<>>
    /\ Len(app.stocksGrid) = 1
    /\ app.stocksGrid[1].ticker = app.allAnalyzedData[2].ticker

====
